---- MODULE Spec2Model ----
(***************************************************************************)
(* A model of the syntax-tree pipeline of the repository:                  *)
(*   tokens -> parser core + grammar -> event buffer -> event processor    *)
(*          -> tree builder (arena FileBuilder and green nodes).           *)
(* Kinds are strings, texts are sequences of one-character strings, and    *)
(* the recursive-descent grammar functions are recursive operators over a  *)
(* record that holds the fields of ParserImpl.                             *)
(***************************************************************************)
EXTENDS Integers, Sequences, FiniteSets, TLC

VARIABLES
    tokens,   \* the raw token sequence of the text: records [kind, text]
    pc,       \* position of the driver: "input", "parsed", "built", "done", ...
    entry,    \* how the text is parsed: the grammar entry point and its arguments
    ps,       \* ParserImpl: inp, pos, events, plus the marker guard state
    ep,       \* EventProcessor: next event index, raw token position, pending state
    fb,       \* FileBuilder: nodes, in_progress, pos, errors
    gb,       \* green builder: the stack of unfinished branches, and the root
    core      \* driver bookkeeping of the parser-core specification

vars == <<tokens, pc, entry, ps, ep, fb, gb, core>>

(***************************************************************************)
(* Generic helpers.                                                        *)
(***************************************************************************)
RECURSIVE Concat(_)
Concat(ss) == IF ss = <<>> THEN <<>> ELSE Head(ss) \o Concat(Tail(ss))

RECURSIVE SumSeq(_)
SumSeq(s) == IF s = <<>> THEN 0 ELSE Head(s) + SumSeq(Tail(s))

Last(s) == s[Len(s)]

Front(s) == SubSeq(s, 1, Len(s) - 1)

\* All sequences over S of length 0..n.
RECURSIVE SeqsUpTo(_, _)
SeqsUpTo(S, n) ==
    IF n = 0 THEN {<<>>}
    ELSE LET shorter == SeqsUpTo(S, n - 1)
         IN  shorter \cup {Append(s, x) : s \in {t \in shorter : Len(t) = n - 1}, x \in S}

(***************************************************************************)
(* Tokens.  A raw token is (kind, text); its length is the length of its   *)
(* text.  The text of a file is the concatenation of its tokens' texts.    *)
(***************************************************************************)
Tok(kind, text) == [kind |-> kind, text |-> text]

TextOf(toks) == Concat([i \in 1..Len(toks) |-> toks[i].text])

\* Whitespace and comments are trivia.
is_insignificant(kind) == kind \in {"WHITESPACE", "COMMENT"}

\* The parser's view of the input: the non-trivia tokens, each with the
\* offset at which it starts in the text.
RECURSIVE NonWsFrom(_, _, _)
NonWsFrom(toks, i, len) ==
    IF i > Len(toks) THEN <<>>
    ELSE LET t == toks[i]
             rest == NonWsFrom(toks, i + 1, len + Len(t.text))
         IN  IF is_insignificant(t.kind) THEN rest
             ELSE <<[kind |-> t.kind, start |-> len, len |-> Len(t.text), idx |-> i]>> \o rest

ParserInput(toks) == NonWsFrom(toks, 1, 0)

InpKind(inp, pos) == IF pos < Len(inp) THEN inp[pos + 1].kind ELSE "EOF"

InpLen(inp, pos) == IF pos < Len(inp) THEN inp[pos + 1].len ELSE 0

InpStart(inp, pos) == IF pos < Len(inp) THEN inp[pos + 1].start ELSE 0

(***************************************************************************)
(* Events.                                                                 *)
(***************************************************************************)
EvStart(kind, fp) == [type |-> "Start", kind |-> kind, fp |-> fp, n |-> 0, msg |-> ""]

EvToken(kind, n) == [type |-> "Token", kind |-> kind, fp |-> 0, n |-> n, msg |-> ""]

EvError(msg) == [type |-> "Error", kind |-> "", fp |-> 0, n |-> 0, msg |-> msg]

EvFinish == [type |-> "Finish", kind |-> "", fp |-> 0, n |-> 0, msg |-> ""]

\* The event a tombstoned slot holds (a Start that opens nothing).
EvTombstone == EvStart("TOMBSTONE", 0)

(***************************************************************************)
(* ParserImpl.  panic = "" while no assertion has failed; once it is set   *)
(* the parse has aborted and every later operation leaves the state alone. *)
(* live is the set of buffer positions of the Markers whose drop bomb is   *)
(* still armed; cm and blk carry the value a grammar function returns      *)
(* (cm = -1 is None), fin is the buffer position of the Finish of the      *)
(* marker completed last (CompletedMarker's finish_pos).                   *)
(***************************************************************************)
NoMarker == 0 - 1

ParserImplNew(inp) ==
    [inp |-> inp, pos |-> 0, events |-> <<>>, live |-> {}, panic |-> "",
     cm |-> NoMarker, fin |-> NoMarker, blk |-> FALSE]

Panic(p, msg) == IF p.panic = "" THEN [p EXCEPT !.panic = msg] ELSE p

Ok(p) == p.panic = ""

Nth(p, n) == InpKind(p.inp, p.pos + n)

Current(p) == Nth(p, 0)

At(p, kind) == Current(p) = kind

AtTs(p, set) == Current(p) \in set

\* A pair of kinds taken without looking at the offsets of the tokens.
next2_any_distance(p) == <<InpKind(p.inp, p.pos), InpKind(p.inp, p.pos + 1)>>

next2(p) ==
    IF InpStart(p.inp, p.pos + 1) = InpStart(p.inp, p.pos) + InpLen(p.inp, p.pos)
    THEN <<InpKind(p.inp, p.pos), InpKind(p.inp, p.pos + 1)>>
    ELSE <<>>

next3(p) ==
    IF /\ InpStart(p.inp, p.pos + 1) = InpStart(p.inp, p.pos) + InpLen(p.inp, p.pos)
       /\ InpStart(p.inp, p.pos + 2) = InpStart(p.inp, p.pos + 1) + InpLen(p.inp, p.pos + 1)
    THEN <<InpKind(p.inp, p.pos), InpKind(p.inp, p.pos + 1), InpKind(p.inp, p.pos + 2)>>
    ELSE <<>>

PushEvent(p, e) == [p EXCEPT !.events = Append(@, e)]

\* The position start() returns: the index of the new Start in the buffer.
NextMarker(p) == Len(p.events)

Start(p) ==
    IF p.panic # "" THEN p
    ELSE [PushEvent(p, EvStart("TOMBSTONE", 0)) EXCEPT !.live = @ \cup {Len(p.events)}]

\* A do_bump that moves the cursor by one whatever the token spans.
do_bump_one_step(p, kind, n) == PushEvent([p EXCEPT !.pos = @ + 1], EvToken(kind, n))

do_bump(p, kind, n) == PushEvent([p EXCEPT !.pos = @ + n], EvToken(kind, n))

Bump(p) ==
    IF p.panic # "" \/ Nth(p, 0) = "EOF" THEN p ELSE do_bump(p, Nth(p, 0), 1)

bump_remap(p, kind) ==
    IF p.panic # "" \/ Nth(p, 0) = "EOF" THEN p ELSE do_bump(p, kind, 1)

bump_compound(p, kind, n) == IF p.panic # "" THEN p ELSE do_bump(p, kind, n)

Error(p, msg) == IF p.panic # "" THEN p ELSE PushEvent(p, EvError(msg))

\* Complete that pushes the Finish twice.
Complete_two_finishes(p, m, kind) ==
    IF p.panic # "" THEN p
    ELSE IF m \notin p.live THEN Panic(p, "marker consumed twice")
    ELSE [p EXCEPT !.events = [@ EXCEPT ![m + 1].kind = kind] \o <<EvFinish, EvFinish>>,
                   !.live = @ \ {m},
                   !.cm = m,
                   !.fin = Len(p.events)]

\* Marker::complete: defuse the bomb, set the kind of the Start, push Finish.
Complete(p, m, kind) ==
    IF p.panic # "" THEN p
    ELSE IF m \notin p.live THEN Panic(p, "marker consumed twice")
    ELSE IF p.events[m + 1].type # "Start" THEN Panic(p, "unreachable")
    ELSE [p EXCEPT !.events = Append([@ EXCEPT ![m + 1].kind = kind], EvFinish),
                   !.live = @ \ {m},
                   !.cm = m,
                   !.fin = Len(p.events)]

\* Abandon with the bomb defused only when the Start is popped.
Abandon_bomb_left_armed(p, m) ==
    IF p.panic # "" THEN p
    ELSE IF m \notin p.live THEN Panic(p, "marker consumed twice")
    ELSE IF m = Len(p.events) - 1
    THEN [p EXCEPT !.events = Front(@), !.live = @ \ {m}]
    ELSE p

\* Abandon that drops the Start together with everything pushed after it.
Abandon_drops_children(p, m) ==
    IF p.panic # "" THEN p
    ELSE IF m \notin p.live THEN Panic(p, "marker consumed twice")
    ELSE [p EXCEPT !.events = SubSeq(@, 1, m), !.live = @ \ {m}]

\* Marker::abandon: defuse the bomb; the Start is popped only when it is
\* the last event of the buffer.
Abandon(p, m) ==
    IF p.panic # "" THEN p
    ELSE IF m \notin p.live THEN Panic(p, "marker consumed twice")
    ELSE IF m = Len(p.events) - 1
    THEN IF Last(p.events) = EvStart("TOMBSTONE", 0)
         THEN [p EXCEPT !.events = Front(@), !.live = @ \ {m}]
         ELSE Panic(p, "unreachable")
    ELSE [p EXCEPT !.live = @ \ {m}]

\* A precede that opens the new Start and forgets the forward_parent link.
Precede_no_forward_parent(p, pos) ==
    IF p.panic # "" THEN p ELSE Start(p)

\* CompletedMarker::precede: a new Start, and the forward_parent of the
\* Start at pos is set to the distance to it.  The new marker is the last
\* event: NextMarker of the state before the call.
Precede(p, pos) ==
    IF p.panic # "" THEN p
    ELSE LET q == Start(p)
             new_pos == Len(p.events)
         IN  IF q.events[pos + 1].type # "Start" THEN Panic(q, "unreachable")
             ELSE [q EXCEPT !.events[pos + 1].fp = new_pos - pos]

Eat(p, kind) == IF p.panic # "" THEN p ELSE IF At(p, kind) THEN Bump(p) ELSE p

Expect(p, kind) ==
    IF p.panic # "" THEN p
    ELSE IF At(p, kind) THEN Bump(p) ELSE Error(p, "expected " \o kind)

err_and_bump(p, msg) ==
    LET m == NextMarker(p)
    IN  Complete(Bump(Error(Start(p), msg)), m, "ERROR")

\* into_events: the parse must have reached the end of the input, and every
\* Marker must have been defused before it was dropped.
into_events(p) ==
    IF p.panic # "" THEN p
    ELSE IF p.live # {} THEN Panic(p, "Marker must be either completed or abandoned")
    ELSE IF Nth(p, 0) # "EOF" THEN Panic(p, "assertion failed: nth(0) == EOF")
    ELSE p

(***************************************************************************)
(* Grammar.  Every grammar function takes the parser record and returns    *)
(* it; a returned CompletedMarker is the field cm, a returned BlockLike    *)
(* the field blk.  Tokens that need the macro layer (`!`, `#`, `$`) are    *)
(* in no alphabet of the model, so attributes::outer_attributes and the    *)
(* dollar bookkeeping of expr_bp leave the parser alone.                   *)
(***************************************************************************)
Ret(p, cm, blk) == [p EXCEPT !.cm = cm, !.blk = blk]

Restrictions(forbid_structs, prefer_stmt) ==
    [forbid_structs |-> forbid_structs, prefer_stmt |-> prefer_stmt]

PATH_FIRST == {"IDENT", "SELF_KW", "SUPER_KW", "COLONCOLON"}

LITERAL_FIRST == {"INT_NUMBER", "FLOAT_NUMBER"}

ATOM_EXPR_FIRST == LITERAL_FIRST \cup PATH_FIRST \cup {"L_PAREN", "L_CURLY", "IF_KW"}

LHS_FIRST == ATOM_EXPR_FIRST \cup {"AMP", "STAR", "EXCL", "DOTDOT", "DOTDOTEQ", "MINUS"}

EXPR_FIRST == LHS_FIRST

EXPR_RECOVERY_SET == {"LET_KW"}

TYPE_FIRST == PATH_FIRST \cup {"L_PAREN", "AMP", "UNDERSCORE"}

TYPE_RECOVERY_SET == {"R_PAREN", "COMMA"}

PATTERN_FIRST == LITERAL_FIRST \cup PATH_FIRST \cup {"MUT_KW", "AMP", "UNDERSCORE"}

PAT_RECOVERY_SET == {"LET_KW", "IF_KW", "R_PAREN", "COMMA"}

VALUE_PARAMETER_FIRST == PATTERN_FIRST \cup TYPE_FIRST

\* Records an error; the offending token is wrapped in an ERROR node and
\* consumed unless it is a brace or a token of the recovery set.
err_recover(p, msg, recovery) ==
    IF At(p, "L_CURLY") \/ At(p, "R_CURLY") \/ AtTs(p, recovery)
    THEN Error(p, msg)
    ELSE err_and_bump(p, msg)

name(p) ==
    IF At(p, "IDENT")
    THEN Complete(Bump(Start(p)), NextMarker(p), "NAME")
    ELSE err_and_bump(p, "expected a name")

name_ref(p) ==
    IF At(p, "IDENT")
    THEN Complete(Bump(Start(p)), NextMarker(p), "NAME_REF")
    ELSE err_and_bump(p, "expected identifier")

\* The binding-power table: (binding power, composite kind, raw tokens);
\* n = 0 is Op::Simple.
Op(bp, kind, n) == [bp |-> bp, kind |-> kind, n |-> n]

Composite3 ==
    (<<"L_ANGLE", "L_ANGLE", "EQ">> :> Op(1, "SHLEQ", 3)) @@
    (<<"R_ANGLE", "R_ANGLE", "EQ">> :> Op(1, "SHREQ", 3))

Composite2 ==
    (<<"PLUS", "EQ">> :> Op(1, "PLUSEQ", 2)) @@
    (<<"MINUS", "EQ">> :> Op(1, "MINUSEQ", 2)) @@
    (<<"STAR", "EQ">> :> Op(1, "STAREQ", 2)) @@
    (<<"PERCENT", "EQ">> :> Op(1, "PERCENTEQ", 2)) @@
    (<<"SLASH", "EQ">> :> Op(1, "SLASHEQ", 2)) @@
    (<<"PIPE", "EQ">> :> Op(1, "PIPEEQ", 2)) @@
    (<<"AMP", "EQ">> :> Op(1, "AMPEQ", 2)) @@
    (<<"CARET", "EQ">> :> Op(1, "CARETEQ", 2)) @@
    (<<"PIPE", "PIPE">> :> Op(3, "PIPEPIPE", 2)) @@
    (<<"AMP", "AMP">> :> Op(4, "AMPAMP", 2)) @@
    (<<"L_ANGLE", "EQ">> :> Op(5, "LTEQ", 2)) @@
    (<<"R_ANGLE", "EQ">> :> Op(5, "GTEQ", 2)) @@
    (<<"L_ANGLE", "L_ANGLE">> :> Op(9, "SHL", 2)) @@
    (<<"R_ANGLE", "R_ANGLE">> :> Op(9, "SHR", 2))

SimpleBp(kind) ==
    CASE kind = "EQ" -> 1
      [] kind \in {"DOTDOT", "DOTDOTEQ"} -> 2
      [] kind \in {"EQEQ", "NEQ", "L_ANGLE", "R_ANGLE"} -> 5
      [] kind = "PIPE" -> 6
      [] kind = "CARET" -> 7
      [] kind = "AMP" -> 8
      [] kind \in {"MINUS", "PLUS"} -> 10
      [] kind \in {"STAR", "SLASH", "PERCENT"} -> 11
      [] OTHER -> 0

\* An operator lookup that knows the single-token table only.
current_op_single_tokens(p) == Op(SimpleBp(Current(p)), "", 0)

current_op(p) ==
    LET t3 == next3(p)
        t2 == next2(p)
    IN  IF t3 # <<>> /\ t3 \in DOMAIN Composite3 THEN Composite3[t3]
        ELSE IF t2 # <<>> /\ t2 \in DOMAIN Composite2 THEN Composite2[t2]
        ELSE Op(SimpleBp(Current(p)), "", 0)

RECURSIVE Run(_, _)

expr(p) == Run("expr_bp", <<p, Restrictions(FALSE, FALSE), 1>>)

\* An expr_stmt without the preference for statements.
expr_stmt_without_preference(p) == Run("expr_bp", <<p, Restrictions(FALSE, FALSE), 1>>)

expr_stmt(p) == Run("expr_bp", <<p, Restrictions(FALSE, TRUE), 1>>)

expr_no_struct(p) == Run("expr_bp", <<p, Restrictions(TRUE, FALSE), 1>>)

\* The loop of expr_bp: lhs is the CompletedMarker of the operand so far.
\* The loop with the right operand parsed at the caller's floor.
expr_bp_loop_rhs_at_floor(p, r, bp, lhs_cm) ==
    LET is_range == Current(p) = "DOTDOT" \/ Current(p) = "DOTDOTEQ"
        op == current_op(p)
    IN  IF p.panic # "" \/ op.bp < bp THEN Ret(p, lhs_cm, FALSE)
        ELSE LET m == NextMarker(p)
                 p1 == Precede(p, lhs_cm)
                 p2 == IF op.n = 0 THEN Bump(p1) ELSE bump_compound(p1, op.kind, op.n)
                 p3 == Run("expr_bp", <<p2, r, bp>>)
                 p4 == Complete(p3, m, IF is_range THEN "RANGE_EXPR" ELSE "BIN_EXPR")
             IN  Run("expr_bp_loop", <<p4, r, bp, m>>)

\* The loop with the right operand parsed at the operator's own power.
expr_bp_loop_right_assoc(p, r, bp, lhs_cm) ==
    LET is_range == Current(p) = "DOTDOT" \/ Current(p) = "DOTDOTEQ"
        op == current_op(p)
    IN  IF p.panic # "" \/ op.bp < bp THEN Ret(p, lhs_cm, FALSE)
        ELSE LET m == NextMarker(p)
                 p1 == Precede(p, lhs_cm)
                 p2 == IF op.n = 0 THEN Bump(p1) ELSE bump_compound(p1, op.kind, op.n)
                 p3 == Run("expr_bp", <<p2, r, op.bp>>)
                 p4 == Complete(p3, m, IF is_range THEN "RANGE_EXPR" ELSE "BIN_EXPR")
             IN  Run("expr_bp_loop", <<p4, r, bp, m>>)

expr_bp_loop(p, r, bp, lhs_cm) ==
    LET is_range == Current(p) = "DOTDOT" \/ Current(p) = "DOTDOTEQ"
        op == current_op(p)
    IN  IF p.panic # "" \/ op.bp < bp THEN Ret(p, lhs_cm, FALSE)
        ELSE LET m == NextMarker(p)
                 p1 == Precede(p, lhs_cm)
                 p2 == IF op.n = 0 THEN Bump(p1) ELSE bump_compound(p1, op.kind, op.n)
                 p3 == Run("expr_bp", <<p2, r, op.bp + 1>>)
                 p4 == Complete(p3, m, IF is_range THEN "RANGE_EXPR" ELSE "BIN_EXPR")
             IN  Run("expr_bp_loop", <<p4, r, bp, m>>)

\* An expr_bp that enters its operator loop after a block-like operand too.
expr_bp_no_stmt_return(p, r, bp) ==
    LET l == Run("lhs", <<p, r>>)
    IN  IF l.cm = NoMarker THEN Ret(l, NoMarker, FALSE)
        ELSE Run("expr_bp_loop", <<l, r, bp, l.cm>>)

\* Parses expression with binding power of at least bp.
expr_bp(p, r, bp) ==
    LET l == Run("lhs", <<p, r>>)
    IN  IF l.cm = NoMarker THEN Ret(l, NoMarker, FALSE)
        ELSE IF r.prefer_stmt /\ l.blk THEN Ret(l, l.cm, TRUE)
        ELSE Run("expr_bp_loop", <<l, r, bp, l.cm>>)

lhs(p, r) ==
    LET m == NextMarker(p)
    IN  CASE At(p, "AMP") ->
               LET p1 == Eat(Bump(Start(p)), "MUT_KW")
                   p2 == Run("expr_bp", <<p1, r, 255>>)
               IN  Ret(Complete(p2, m, "REF_EXPR"), m, FALSE)
          [] AtTs(p, {"STAR", "EXCL", "MINUS"}) ->
               LET p1 == Bump(Start(p))
                   p2 == Run("expr_bp", <<p1, r, 255>>)
               IN  Ret(Complete(p2, m, "PREFIX_EXPR"), m, FALSE)
          [] AtTs(p, {"DOTDOT", "DOTDOTEQ"}) ->
               LET p1 == Bump(Start(p))
                   p2 == IF AtTs(p1, EXPR_FIRST) THEN Run("expr_bp", <<p1, r, 2>>) ELSE p1
               IN  Ret(Complete(p2, m, "RANGE_EXPR"), m, FALSE)
          [] OTHER ->
               LET a == Run("atom_expr", <<p, r>>)
               IN  IF a.cm = NoMarker THEN a
                   ELSE LET q == Run("postfix_expr", <<a, a.cm, ~(r.prefer_stmt /\ a.blk)>>)
                        IN  Ret(q, q.cm, a.blk)

call_expr(p, lhs_cm) ==
    IF ~At(p, "L_PAREN") THEN Panic(p, "assertion failed: p.at(L_PAREN)")
    ELSE LET m == NextMarker(p)
         IN  Complete(Run("arg_list", <<Precede(p, lhs_cm)>>), m, "CALL_EXPR")

index_expr(p, lhs_cm) ==
    IF ~At(p, "L_BRACK") THEN Panic(p, "assertion failed: p.at(L_BRACK)")
    ELSE LET m == NextMarker(p)
             p1 == Bump(Precede(p, lhs_cm))
             p2 == Expect(expr(p1), "R_BRACK")
         IN  Complete(p2, m, "INDEX_EXPR")

method_call_expr(p, lhs_cm) ==
    IF ~(At(p, "DOT") /\ Nth(p, 1) = "IDENT" /\ Nth(p, 2) \in {"L_PAREN", "COLONCOLON"})
    THEN Panic(p, "assertion failed: method call")
    ELSE LET m == NextMarker(p)
             p1 == name_ref(Bump(Precede(p, lhs_cm)))
             p2 == Run("type_arg_list", <<p1, TRUE>>)
             p3 == IF At(p2, "L_PAREN") THEN Run("arg_list", <<p2>>) ELSE p2
         IN  Complete(p3, m, "METHOD_CALL_EXPR")

field_expr(p, lhs_cm) ==
    IF ~At(p, "DOT") THEN Panic(p, "assertion failed: p.at(DOT)")
    ELSE LET m == NextMarker(p)
             p1 == Bump(Precede(p, lhs_cm))
             p2 == IF At(p1, "IDENT") THEN name_ref(p1)
                   ELSE IF At(p1, "INT_NUMBER") THEN Bump(p1)
                   ELSE IF At(p1, "FLOAT_NUMBER") THEN Bump(p1)
                   ELSE Error(p1, "expected field name or number")
         IN  Complete(p2, m, "FIELD_EXPR")

try_expr(p, lhs_cm) ==
    IF ~At(p, "QUESTION") THEN Panic(p, "assertion failed: p.at(QUESTION)")
    ELSE LET m == NextMarker(p)
         IN  Complete(Bump(Precede(p, lhs_cm)), m, "TRY_EXPR")

cast_expr(p, lhs_cm) ==
    IF ~At(p, "AS_KW") THEN Panic(p, "assertion failed: p.at(AS_KW)")
    ELSE LET m == NextMarker(p)
             p1 == Run("type_no_bounds", <<Bump(Precede(p, lhs_cm))>>)
         IN  Complete(p1, m, "CAST_EXPR")

\* A postfix loop without the arm of the open-ended range.
postfix_expr_no_open_range(p, lhs_cm, allow_calls) ==
    LET k == Current(p)
        m == NextMarker(p)
    IN  IF p.panic # "" THEN Ret(p, lhs_cm, FALSE)
        ELSE IF k = "L_PAREN" /\ allow_calls
        THEN Run("postfix_expr", <<call_expr(p, lhs_cm), m, TRUE>>)
        ELSE IF k = "L_BRACK" /\ allow_calls
        THEN Run("postfix_expr", <<index_expr(p, lhs_cm), m, TRUE>>)
        ELSE IF k = "DOT" /\ Nth(p, 1) = "IDENT" /\ Nth(p, 2) \in {"L_PAREN", "COLONCOLON"}
        THEN Run("postfix_expr", <<method_call_expr(p, lhs_cm), m, TRUE>>)
        ELSE IF k = "DOT"
        THEN Run("postfix_expr", <<field_expr(p, lhs_cm), m, TRUE>>)
        ELSE IF k = "QUESTION"
        THEN Run("postfix_expr", <<try_expr(p, lhs_cm), m, TRUE>>)
        ELSE IF k = "AS_KW"
        THEN Run("postfix_expr", <<cast_expr(p, lhs_cm), m, TRUE>>)
        ELSE Ret(p, lhs_cm, FALSE)

postfix_expr(p, lhs_cm, allow_calls) ==
    LET k == Current(p)
        m == NextMarker(p)
    IN  IF p.panic # "" THEN Ret(p, lhs_cm, FALSE)
        ELSE IF k = "L_PAREN" /\ allow_calls
        THEN Run("postfix_expr", <<call_expr(p, lhs_cm), m, TRUE>>)
        ELSE IF k = "L_BRACK" /\ allow_calls
        THEN Run("postfix_expr", <<index_expr(p, lhs_cm), m, TRUE>>)
        ELSE IF k = "DOT" /\ Nth(p, 1) = "IDENT" /\ Nth(p, 2) \in {"L_PAREN", "COLONCOLON"}
        THEN Run("postfix_expr", <<method_call_expr(p, lhs_cm), m, TRUE>>)
        ELSE IF k = "DOT"
        THEN Run("postfix_expr", <<field_expr(p, lhs_cm), m, TRUE>>)
        ELSE IF k \in {"DOTDOT", "DOTDOTEQ"} /\ Nth(p, 1) \notin EXPR_FIRST
        THEN Run("postfix_expr", <<Complete(Bump(Precede(p, lhs_cm)), m, "RANGE_EXPR"), m, TRUE>>)
        ELSE IF k = "QUESTION"
        THEN Run("postfix_expr", <<try_expr(p, lhs_cm), m, TRUE>>)
        ELSE IF k = "AS_KW"
        THEN Run("postfix_expr", <<cast_expr(p, lhs_cm), m, TRUE>>)
        ELSE Ret(p, lhs_cm, FALSE)

\* One pass through the body of a loop: the parser after it, and whether
\* the pass left the loop by break.
Turn(p, left) == [p |-> p, left |-> left]

\* The body of the loop of arg_list.
arg_list_turn(p) ==
    IF ~AtTs(p, EXPR_FIRST) THEN Turn(Error(p, "expected expression"), TRUE)
    ELSE LET p1 == expr(p)
         IN  IF At(p1, "R_PAREN") THEN Turn(p1, FALSE)
             ELSE IF At(p1, "COMMA") THEN Turn(Bump(p1), FALSE)
             ELSE Turn(Error(p1, "expected COMMA"), TRUE)

arg_list_next(t) == IF t.left THEN t.p ELSE Run("arg_list_loop", <<t.p>>)

arg_list_loop(p) ==
    IF p.panic # "" \/ At(p, "R_PAREN") \/ At(p, "EOF") THEN p
    ELSE arg_list_next(Run("arg_list_turn", <<p>>))

arg_list(p) ==
    IF ~At(p, "L_PAREN") THEN Panic(p, "assertion failed: p.at(L_PAREN)")
    ELSE LET m == NextMarker(p)
             p1 == Run("arg_list_loop", <<Bump(Start(p))>>)
         IN  Complete(Eat(p1, "R_PAREN"), m, "ARG_LIST")

\* A path expression that takes a following brace whatever the restriction.
path_expr_ignores_forbid_structs(p, r) ==
    LET m == NextMarker(p)
        p1 == Run("path", <<Start(p), "Expr">>)
    IN  IF At(p1, "L_CURLY")
        THEN Ret(Complete(Run("named_field_list", <<p1>>), m, "STRUCT_LIT"), m, FALSE)
        ELSE Ret(Complete(p1, m, "PATH_EXPR"), m, FALSE)

path_expr(p, r) ==
    IF ~AtTs(p, PATH_FIRST \cup {"L_ANGLE"})
    THEN Panic(p, "assertion failed: is_path_start")
    ELSE LET m == NextMarker(p)
             p1 == Run("path", <<Start(p), "Expr">>)
         IN  IF At(p1, "L_CURLY") /\ ~r.forbid_structs
             THEN Ret(Complete(Run("named_field_list", <<p1>>), m, "STRUCT_LIT"), m, FALSE)
             ELSE Ret(Complete(p1, m, "PATH_EXPR"), m, FALSE)

\* The body of the loop of named_field_list; it has no break.
named_field_list_turn(p) ==
    LET m == NextMarker(p)
        p1 == CASE At(p, "IDENT") ->
                    LET q1 == name_ref(Start(p))
                        q2 == IF At(q1, "COLON") THEN expr(Bump(q1)) ELSE q1
                    IN  Complete(q2, m, "NAMED_FIELD")
                [] At(p, "DOTDOT") -> expr(Bump(p))
                [] At(p, "L_CURLY") -> Run("error_block", <<p, "expected a field">>)
                [] OTHER -> err_and_bump(p, "expected identifier")
        p2 == IF ~At(p1, "R_CURLY") THEN Expect(p1, "COMMA") ELSE p1
    IN  Turn(p2, FALSE)

named_field_list_next(t) == IF t.left THEN t.p ELSE Run("named_field_list_loop", <<t.p>>)

named_field_list_loop(p) ==
    IF p.panic # "" \/ At(p, "EOF") \/ At(p, "R_CURLY") THEN p
    ELSE named_field_list_next(Run("named_field_list_turn", <<p>>))

named_field_list(p) ==
    IF ~At(p, "L_CURLY") THEN Panic(p, "assertion failed: p.at(L_CURLY)")
    ELSE LET m == NextMarker(p)
             p1 == Run("named_field_list_loop", <<Bump(Start(p))>>)
         IN  Complete(Expect(p1, "R_CURLY"), m, "NAMED_FIELD_LIST")

literal(p) ==
    IF ~AtTs(p, LITERAL_FIRST) THEN Ret(p, NoMarker, FALSE)
    ELSE Complete(Bump(Start(p)), NextMarker(p), "LITERAL")

tuple_expr_loop(p, saw_comma, saw_expr) ==
    IF p.panic # "" \/ At(p, "EOF") \/ At(p, "R_PAREN")
    THEN [p EXCEPT !.blk = saw_expr /\ ~saw_comma]
    ELSE IF ~AtTs(p, EXPR_FIRST)
    THEN [Error(p, "expected expression") EXCEPT !.blk = ~saw_comma]
    ELSE LET p1 == expr(p)
         IN  IF ~At(p1, "R_PAREN")
             THEN Run("tuple_expr_loop", <<Expect(p1, "COMMA"), TRUE, TRUE>>)
             ELSE Run("tuple_expr_loop", <<p1, saw_comma, TRUE>>)

\* blk of the loop's result tells whether a single expression without a
\* comma was seen (PAREN_EXPR) or not (TUPLE_EXPR).
tuple_expr(p) ==
    IF ~At(p, "L_PAREN") THEN Panic(p, "assertion failed: p.at(L_PAREN)")
    ELSE LET m == NextMarker(p)
             p1 == Run("tuple_expr_loop", <<Expect(Start(p), "L_PAREN"), FALSE, FALSE>>)
             p2 == Expect(p1, "R_PAREN")
         IN  Complete(p2, m, IF p1.blk THEN "PAREN_EXPR" ELSE "TUPLE_EXPR")

block_expr(p) ==
    IF ~At(p, "L_CURLY") THEN Panic(p, "assertion failed: p.at(L_CURLY)")
    ELSE Complete(Run("block", <<Start(p)>>), NextMarker(p), "BLOCK_EXPR")

cond(p) == Complete(expr_no_struct(Start(p)), NextMarker(p), "CONDITION")

if_expr(p) ==
    IF ~At(p, "IF_KW") THEN Panic(p, "assertion failed: p.at(IF_KW)")
    ELSE LET m == NextMarker(p)
             p1 == Run("block", <<cond(Bump(Start(p)))>>)
             p2 == IF ~At(p1, "ELSE_KW") THEN p1
                   ELSE IF At(Bump(p1), "IF_KW") THEN Run("if_expr", <<Bump(p1)>>)
                   ELSE Run("block", <<Bump(p1)>>)
         IN  Complete(p2, m, "IF_EXPR")

atom_expr(p, r) ==
    LET m == NextMarker(p)
    IN  CASE AtTs(p, LITERAL_FIRST) -> Ret(literal(p), m, FALSE)
          [] AtTs(p, PATH_FIRST) -> Run("path_expr", <<p, r>>)
          [] At(p, "L_PAREN") -> Ret(Run("tuple_expr", <<p>>), m, FALSE)
          [] At(p, "IF_KW") -> Ret(Run("if_expr", <<p>>), m, TRUE)
          [] At(p, "L_CURLY") -> Ret(block_expr(p), m, TRUE)
          [] OTHER -> Ret(err_recover(p, "expected expression", EXPR_RECOVERY_SET),
                          NoMarker, FALSE)

error_block(p, message) ==
    IF ~At(p, "L_CURLY") THEN Panic(p, "assertion failed: p.at(L_CURLY)")
    ELSE LET m == NextMarker(p)
             p1 == Run("expr_block_contents", <<Bump(Error(Start(p), message))>>)
         IN  Complete(Eat(p1, "R_CURLY"), m, "ERROR")

\* A block that leaves its closing brace to its caller.
block_leaves_brace(p) ==
    IF ~At(p, "L_CURLY") THEN Error(p, "expected a block")
    ELSE Complete(Run("expr_block_contents", <<Bump(Start(p))>>), NextMarker(p), "BLOCK")

block(p) ==
    IF ~At(p, "L_CURLY") THEN Error(p, "expected a block")
    ELSE LET m == NextMarker(p)
             p1 == Run("expr_block_contents", <<Bump(Start(p))>>)
         IN  IF p1.panic # "" THEN p1 ELSE Complete(Expect(p1, "R_CURLY"), m, "BLOCK")

\* CompletedMarker::undo_completion: the Start gets its TOMBSTONE kind
\* back, the Finish becomes a tombstone, and the marker is live again.
undo_completion(p, cm, fin) ==
    IF p.panic # "" THEN p
    ELSE IF ~(p.events[cm + 1].type = "Start" /\ p.events[cm + 1].fp = 0)
    THEN Panic(p, "unreachable")
    ELSE IF p.events[fin + 1] # EvFinish THEN Panic(p, "unreachable")
    ELSE [p EXCEPT !.events = [@ EXCEPT ![cm + 1].kind = "TOMBSTONE",
                                         ![fin + 1] = EvTombstone],
                   !.live = @ \cup {cm}]

\* A terminator rule that asks for the semicolon after every expression.
with_semi_tail_always_expects(p, with_semi, is_block) ==
    CASE with_semi = "Yes" -> Expect(p, "SEMI")
      [] with_semi = "No" -> p
      [] with_semi = "Optional" -> IF At(p, "SEMI") THEN Eat(p, "SEMI") ELSE p

with_semi_tail(p, with_semi, is_block) ==
    CASE with_semi = "Yes" -> IF is_block THEN Eat(p, "SEMI") ELSE Expect(p, "SEMI")
      [] with_semi = "No" -> p
      [] with_semi = "Optional" -> IF At(p, "SEMI") THEN Eat(p, "SEMI") ELSE p

let_stmt(p, m, with_semi) ==
    IF ~At(p, "LET_KW") THEN Panic(p, "assertion failed: p.at(LET_KW)")
    ELSE LET p1 == Run("pattern", <<Bump(p)>>)
             p2 == IF At(p1, "COLON") THEN Run("type_", <<Expect(p1, "COLON")>>) ELSE p1
             p3 == IF At(p2, "EQ") THEN expr(Bump(p2)) ELSE p2
             p4 == with_semi_tail(p3, with_semi, FALSE)
         IN  Complete(p4, m, "LET_STMT")

stmt(p, with_semi) ==
    LET m == NextMarker(p)
        p0 == Start(p)
    IN  IF At(p0, "LET_KW") THEN let_stmt(p0, m, with_semi)
        ELSE LET it == Run("maybe_item", <<p0, m>>)
             IN  IF it.cm # NoMarker THEN it
                 ELSE LET e == expr_stmt(it)
                          kind == IF e.cm = NoMarker THEN "ERROR" ELSE e.events[e.cm + 1].kind
                      IN  IF e.panic # "" THEN e
                          ELSE IF At(e, "R_CURLY")
                          THEN IF e.cm # NoMarker
                               THEN Complete(Abandon(undo_completion(e, e.cm, e.fin), e.cm), m, kind)
                               ELSE Abandon(e, m)
                          ELSE Complete(with_semi_tail(e, with_semi, e.blk), m, "EXPR_STMT")

expr_block_contents(p) ==
    IF p.panic # "" \/ At(p, "EOF") \/ At(p, "R_CURLY") THEN p
    ELSE IF Current(p) = "SEMI" THEN Run("expr_block_contents", <<Bump(p)>>)
    ELSE LET p1 == Run("stmt", <<p, "Yes">>)
         IN  IF p1.panic # "" THEN p1 ELSE Run("expr_block_contents", <<p1>>)

(***************************************************************************)
(* Paths.                                                                  *)
(***************************************************************************)
is_path_start(p) == AtTs(p, {"IDENT", "SELF_KW", "SUPER_KW", "COLONCOLON"})

type_arg(p) ==
    LET m == NextMarker(p)
    IN  IF At(p, "LIFETIME") THEN Complete(Bump(Start(p)), m, "LIFETIME_ARG")
        ELSE Complete(Run("type_", <<Start(p)>>), m, "TYPE_ARG")

type_arg_list_loop(p) ==
    IF p.panic # "" \/ At(p, "EOF") \/ At(p, "R_ANGLE") THEN p
    ELSE LET p1 == type_arg(p)
         IN  IF At(p1, "R_ANGLE") THEN p1
             ELSE IF At(p1, "COMMA") THEN Run("type_arg_list_loop", <<Bump(p1)>>)
             ELSE Error(p1, "expected COMMA")

type_arg_list(p, colon_colon_required) ==
    LET m == NextMarker(p)
        open == IF Nth(p, 0) = "COLONCOLON" /\ Nth(p, 1) = "L_ANGLE" THEN 2
                ELSE IF ~colon_colon_required /\ Nth(p, 0) = "L_ANGLE" THEN 1
                ELSE 0
        p1 == IF open = 2 THEN Bump(Bump(Start(p))) ELSE Bump(Start(p))
    IN  IF open = 0 THEN p
        ELSE Complete(Expect(Run("type_arg_list_loop", <<p1>>), "R_ANGLE"), m, "TYPE_ARG_LIST")

path_generic_args(p, mode) ==
    CASE mode = "Use" -> p
      [] mode = "Type" ->
           IF At(p, "L_PAREN") THEN Run("list_", <<p, "FnTrait">>) ELSE Run("type_arg_list", <<p, FALSE>>)
      [] mode = "Expr" -> Run("type_arg_list", <<p, TRUE>>)

path_segment(p, mode, first) ==
    LET segment == NextMarker(p)
        p1 == IF first THEN Eat(Start(p), "COLONCOLON") ELSE Start(p)
        p2 == CASE At(p1, "IDENT") -> path_generic_args(name_ref(p1), mode)
                [] AtTs(p1, {"SELF_KW", "SUPER_KW"}) -> Bump(p1)
                [] OTHER -> err_and_bump(p1, "expected identifier")
    IN  Complete(p2, segment, "PATH_SEGMENT")

path_loop(p, mode, qual) ==
    LET use_tree == Nth(p, 1) \in {"STAR", "L_CURLY"}
    IN  IF Ok(p) /\ At(p, "COLONCOLON") /\ ~use_tree
        THEN LET m == NextMarker(p)
                 p1 == Run("path_segment", <<Bump(Precede(p, qual)), mode, FALSE>>)
             IN  Run("path_loop", <<Complete(p1, m, "PATH"), mode, m>>)
        ELSE p

path(p, mode) ==
    IF ~is_path_start(p) THEN p
    ELSE LET m == NextMarker(p)
             p1 == Complete(Run("path_segment", <<Start(p), mode, TRUE>>), m, "PATH")
         IN  Run("path_loop", <<p1, mode, m>>)

(***************************************************************************)
(* Types and patterns: path types and `_`, binding patterns and `_`.       *)
(***************************************************************************)
path_type_(p) ==
    IF ~(is_path_start(p) \/ At(p, "L_ANGLE"))
    THEN Panic(p, "assertion failed: is_path_start")
    ELSE Complete(Run("path", <<Start(p), "Type">>), NextMarker(p), "PATH_TYPE")

type_(p) ==
    IF At(p, "UNDERSCORE") THEN Complete(Bump(Start(p)), NextMarker(p), "PLACEHOLDER_TYPE")
    ELSE IF is_path_start(p) THEN Run("path_type_", <<p>>)
    ELSE err_recover(p, "expected type", TYPE_RECOVERY_SET)

type_no_bounds(p) == Run("type_", <<p>>)

ascription(p) == Run("type_", <<Expect(p, "COLON")>>)

pattern(p) ==
    LET m == NextMarker(p)
    IN  IF At(p, "IDENT") THEN Complete(name(Start(p)), m, "BIND_PAT")
        ELSE IF At(p, "UNDERSCORE") THEN Complete(Bump(Start(p)), m, "PLACEHOLDER_PAT")
        ELSE err_recover(p, "expected pattern", PAT_RECOVERY_SET)

(***************************************************************************)
(* Type parameters.                                                        *)
(***************************************************************************)
RECURSIVE lifetime_bounds_loop(_)
lifetime_bounds_loop(p) ==
    IF Ok(p) /\ At(p, "LIFETIME")
    THEN LET p1 == Bump(p)
         IN  IF At(p1, "PLUS") THEN lifetime_bounds_loop(Bump(p1)) ELSE p1
    ELSE p

lifetime_bounds(p) ==
    IF ~At(p, "COLON") THEN Panic(p, "assertion failed: p.at(COLON)")
    ELSE lifetime_bounds_loop(Bump(p))

\* One turn of the loop of bounds_without_colon and what follows it.
bounds_without_colon_loop(p) ==
    LET inner == NextMarker(p)
        p0 == Start(p)
        has_paren == At(p0, "L_PAREN")
        p1 == Eat(Eat(p0, "L_PAREN"), "QUESTION")
    IN  IF p.panic # "" THEN p
        ELSE IF ~(At(p1, "LIFETIME") \/ is_path_start(p1))
        THEN Abandon(p1, inner)
        ELSE LET p2 == IF At(p1, "LIFETIME") THEN Bump(p1) ELSE Run("path_type_", <<p1>>)
                 p3 == IF has_paren THEN Expect(p2, "R_PAREN") ELSE p2
                 p4 == Complete(p3, inner, "TYPE_BOUND")
             IN  IF At(p4, "PLUS") THEN Run("bounds_without_colon_loop", <<Bump(p4)>>) ELSE p4

bounds_without_colon(p) ==
    LET outer == NextMarker(p)
    IN  Complete(Run("bounds_without_colon_loop", <<Start(p)>>), outer, "TYPE_BOUND_LIST")

bounds(p) ==
    IF ~At(p, "COLON") THEN Panic(p, "assertion failed: p.at(COLON)")
    ELSE Run("bounds_without_colon", <<Bump(p)>>)

lifetime_param(p, m) ==
    IF ~At(p, "LIFETIME") THEN Panic(p, "assertion failed: p.at(LIFETIME)")
    ELSE LET p1 == Bump(p)
             p2 == IF At(p1, "COLON") THEN lifetime_bounds(p1) ELSE p1
         IN  Complete(p2, m, "LIFETIME_PARAM")

type_param(p, m) ==
    IF ~At(p, "IDENT") THEN Panic(p, "assertion failed: p.at(IDENT)")
    ELSE LET p1 == name(p)
             p2 == IF At(p1, "COLON") THEN bounds(p1) ELSE p1
             p3 == IF At(p2, "EQ") THEN Run("type_", <<Bump(p2)>>) ELSE p2
         IN  Complete(p3, m, "TYPE_PARAM")

\* The body of the loop of type_param_list whose last arm records the
\* error and leaves the token where it is.
type_param_list_turn_keeps_token(p) ==
    LET m == NextMarker(p)
        p0 == Start(p)
        p1 == CASE At(p0, "LIFETIME") -> lifetime_param(p0, m)
                [] At(p0, "IDENT") -> type_param(p0, m)
                [] OTHER -> Error(Abandon(p0, m), "expected type parameter")
    IN  IF At(p1, "R_ANGLE") THEN Turn(p1, FALSE)
        ELSE IF At(p1, "COMMA") THEN Turn(Bump(p1), FALSE)
        ELSE Turn(Error(p1, "expected COMMA"), TRUE)

\* The body of the loop of type_param_list.
type_param_list_turn(p) ==
    LET m == NextMarker(p)
        p0 == Start(p)
        p1 == CASE At(p0, "LIFETIME") -> lifetime_param(p0, m)
                [] At(p0, "IDENT") -> type_param(p0, m)
                [] OTHER -> err_and_bump(Abandon(p0, m), "expected type parameter")
    IN  IF At(p1, "R_ANGLE") THEN Turn(p1, FALSE)
        ELSE IF At(p1, "COMMA") THEN Turn(Bump(p1), FALSE)
        ELSE Turn(Error(p1, "expected COMMA"), TRUE)

type_param_list_next(t) == IF t.left THEN t.p ELSE Run("type_param_list_loop", <<t.p>>)

type_param_list_loop(p) ==
    IF p.panic # "" \/ At(p, "EOF") \/ At(p, "R_ANGLE") THEN p
    ELSE type_param_list_next(Run("type_param_list_turn", <<p>>))

type_param_list(p) ==
    IF ~At(p, "L_ANGLE") THEN Panic(p, "assertion failed: p.at(L_ANGLE)")
    ELSE LET m == NextMarker(p)
             p1 == Run("type_param_list_loop", <<Bump(Start(p))>>)
         IN  Complete(Expect(p1, "R_ANGLE"), m, "TYPE_PARAM_LIST")

opt_type_param_list(p) == IF ~At(p, "L_ANGLE") THEN p ELSE type_param_list(p)

(***************************************************************************)
(* Parameter lists (flavors FnDef and FnTrait; the model's callers use no  *)
(* other).                                                                 *)
(***************************************************************************)
value_parameter(p, flavor) ==
    LET m == NextMarker(p)
        p1 == IF flavor = "FnDef" THEN ascription(Run("pattern", <<Start(p)>>)) ELSE Run("type_", <<Start(p)>>)
    IN  Complete(p1, m, "PARAM")

RECURSIVE BumpN(_, _)
BumpN(p, n) == IF n = 0 THEN p ELSE BumpN(Bump(p), n - 1)

opt_self_param(p) ==
    LET m == NextMarker(p)
        n_toks == CASE At(p, "AMP") /\ Nth(p, 1) = "SELF_KW" -> 2
                    [] At(p, "AMP") /\ Nth(p, 1) = "MUT_KW" /\ Nth(p, 2) = "SELF_KW" -> 3
                    [] At(p, "AMP") /\ Nth(p, 1) = "LIFETIME" /\ Nth(p, 2) = "SELF_KW" -> 3
                    [] At(p, "AMP") /\ Nth(p, 1) = "LIFETIME" /\ Nth(p, 2) = "MUT_KW"
                         /\ Nth(p, 3) = "SELF_KW" -> 4
                    [] OTHER -> 0
        tail(q) == LET q1 == Complete(q, m, "SELF_PARAM")
                   IN  IF ~At(q1, "R_PAREN") THEN Expect(q1, "COMMA") ELSE q1
    IN  IF At(p, "SELF_KW") \/ (At(p, "MUT_KW") /\ Nth(p, 1) = "SELF_KW")
        THEN LET p1 == Eat(Eat(Start(p), "MUT_KW"), "SELF_KW")
                 p2 == IF At(p1, "COLON") THEN ascription(p1) ELSE p1
             IN  tail(p2)
        ELSE IF n_toks = 0 THEN p
        ELSE tail(BumpN(Start(p), n_toks))

\* The body of the loop of list_.
list_turn(p, flavor) ==
    IF flavor = "FnDef" /\ At(p, "DOTDOTDOT") THEN Turn(Bump(p), TRUE)
    ELSE IF ~AtTs(p, VALUE_PARAMETER_FIRST)
    THEN Turn(Error(p, "expected value parameter"), TRUE)
    ELSE LET p1 == Run("value_parameter", <<p, flavor>>)
             p2 == IF ~At(p1, "R_PAREN") THEN Expect(p1, "COMMA") ELSE p1
         IN  Turn(p2, FALSE)

list_next(t, flavor) == IF t.left THEN t.p ELSE Run("list_loop", <<t.p, flavor>>)

list_loop(p, flavor) ==
    IF p.panic # "" \/ At(p, "EOF") \/ At(p, "R_PAREN") THEN p
    ELSE list_next(Run("list_turn", <<p, flavor>>), flavor)

list_(p, flavor) ==
    IF ~At(p, "L_PAREN") THEN Panic(p, "assertion failed: p.at(bra)")
    ELSE LET m == NextMarker(p)
             p1 == Bump(Start(p))
             p2 == IF flavor = "FnDef" THEN opt_self_param(p1) ELSE p1
             p3 == Run("list_loop", <<p2, flavor>>)
         IN  Complete(Expect(p3, "R_PAREN"), m, "PARAM_LIST")

(***************************************************************************)
(* Items and the file.                                                     *)
(***************************************************************************)
fn_def(p) ==
    IF ~At(p, "FN_KW") THEN Panic(p, "assertion failed: p.at(FN_KW)")
    ELSE LET p1 == Run("opt_type_param_list", <<name(Bump(p))>>)
             p2 == IF At(p1, "L_PAREN") THEN Run("list_", <<p1, "FnDef">>)
                   ELSE Error(p1, "expected function arguments")
         IN  IF At(p2, "SEMI") THEN Bump(p2) ELSE Run("block", <<p2>>)

\* Ok(()) is cm = m, Err(m) is cm = None with m still live.
maybe_item(p, m) ==
    IF At(p, "FN_KW") THEN Ret(Complete(fn_def(p), m, "FN_DEF"), m, FALSE)
    ELSE Ret(p, NoMarker, FALSE)

item_or_macro(p, stop_on_r_curly) ==
    LET m == NextMarker(p)
        it == Run("maybe_item", <<Start(p), m>>)
        p1 == Abandon(it, m)
        e == NextMarker(p1)
    IN  IF it.cm # NoMarker THEN it
        ELSE IF At(p1, "L_CURLY") THEN Run("error_block", <<p1, "expected an item">>)
        ELSE IF At(p1, "R_CURLY") /\ ~stop_on_r_curly
        THEN Complete(Bump(Error(Start(p1), "unmatched }")), e, "ERROR")
        ELSE IF ~At(p1, "EOF") /\ ~At(p1, "R_CURLY") THEN err_and_bump(p1, "expected an item")
        ELSE Error(p1, "expected an item")

RECURSIVE mod_contents(_, _)
\* The next turn of the loop of mod_contents, after one item.
mod_contents_turn(p1, stop_on_r_curly) ==
    IF p1.panic # "" THEN p1 ELSE mod_contents(p1, stop_on_r_curly)

mod_contents(p, stop_on_r_curly) ==
    IF p.panic # "" \/ At(p, "EOF") \/ (stop_on_r_curly /\ At(p, "R_CURLY")) THEN p
    ELSE mod_contents_turn(item_or_macro(p, stop_on_r_curly), stop_on_r_curly)

root(p) == Complete(mod_contents(Start(p), FALSE), NextMarker(p), "SOURCE_FILE")

\* The call of a grammar function by name: Run(f, a) is f applied to the
\* arguments a.
Run(f, a) ==
    CASE f = "expr_bp" -> expr_bp(a[1], a[2], a[3])
      [] f = "expr_bp_loop" -> expr_bp_loop(a[1], a[2], a[3], a[4])
      [] f = "lhs" -> lhs(a[1], a[2])
      [] f = "postfix_expr" -> postfix_expr(a[1], a[2], a[3])
      [] f = "atom_expr" -> atom_expr(a[1], a[2])
      [] f = "path_expr" -> path_expr(a[1], a[2])
      [] f = "named_field_list" -> named_field_list(a[1])
      [] f = "named_field_list_loop" -> named_field_list_loop(a[1])
      [] f = "arg_list" -> arg_list(a[1])
      [] f = "arg_list_loop" -> arg_list_loop(a[1])
      [] f = "block" -> block(a[1])
      [] f = "expr_block_contents" -> expr_block_contents(a[1])
      [] f = "stmt" -> stmt(a[1], a[2])
      [] f = "tuple_expr" -> tuple_expr(a[1])
      [] f = "tuple_expr_loop" -> tuple_expr_loop(a[1], a[2], a[3])
      [] f = "if_expr" -> if_expr(a[1])
      [] f = "error_block" -> error_block(a[1], a[2])
      [] f = "path" -> path(a[1], a[2])
      [] f = "path_loop" -> path_loop(a[1], a[2], a[3])
      [] f = "path_segment" -> path_segment(a[1], a[2], a[3])
      [] f = "type_arg_list" -> type_arg_list(a[1], a[2])
      [] f = "type_arg_list_loop" -> type_arg_list_loop(a[1])
      [] f = "type_" -> type_(a[1])
      [] f = "type_no_bounds" -> type_no_bounds(a[1])
      [] f = "list_" -> list_(a[1], a[2])
      [] f = "list_loop" -> list_loop(a[1], a[2])
      [] f = "maybe_item" -> maybe_item(a[1], a[2])
      [] f = "type_param_list_loop" -> type_param_list_loop(a[1])
      [] f = "bounds_without_colon_loop" -> bounds_without_colon_loop(a[1])
      [] f = "opt_type_param_list" -> opt_type_param_list(a[1])
      [] f = "value_parameter" -> value_parameter(a[1], a[2])
      [] f = "path_type_" -> path_type_(a[1])
      [] f = "pattern" -> pattern(a[1])
      [] f = "bounds_without_colon" -> bounds_without_colon(a[1])
      [] f = "root" -> root(a[1])
      [] f = "arg_list_turn" -> arg_list_turn(a[1])
      [] f = "named_field_list_turn" -> named_field_list_turn(a[1])
      [] f = "type_param_list_turn" -> type_param_list_turn(a[1])
      [] f = "list_turn" -> list_turn(a[1], a[2])
      [] f = "type_param_list" -> type_param_list(a[1])
      [] f = "opt_self_param" -> opt_self_param(a[1])

(***************************************************************************)
(* Event processor: replays the event buffer into sink calls.  A call is   *)
(* a record [op, kind, text, msg] with op one of "start_branch", "leaf",   *)
(* "finish_branch", "error".                                               *)
(***************************************************************************)
Call(op, kind, text, msg) == [op |-> op, kind |-> kind, text |-> text, msg |-> msg]

EventProcessorNew(events) == [events |-> events, i |-> 1, token_pos |-> 0, panic |-> ""]

\* The number of trivia tokens at the front of the raw tokens from position pos.
RECURSIVE n_trivias(_, _)
n_trivias(toks, pos) ==
    IF pos < Len(toks) /\ is_insignificant(toks[pos + 1].kind)
    THEN 1 + n_trivias(toks, pos + 1)
    ELSE 0

\* eat_ws: the leaves of the trivia at the current raw token position.
eat_ws(toks, pos) ==
    [k \in 1..n_trivias(toks, pos) |-> Call("leaf", toks[pos + k].kind, toks[pos + k].text, "")]

\* The kinds of the forward_parent chain that starts at event idx (the
\* chain's own Start first), and the indices of the chain's events.
\* Tombstones in the chain open nothing.
RECURSIVE forward_parents(_, _)
forward_parents(events, idx) ==
    IF idx > Len(events) \/ events[idx].type # "Start"
    THEN [kinds |-> <<>>, idxs |-> <<>>, ok |-> FALSE]
    ELSE LET e == events[idx]
             rest == IF e.fp = 0 THEN [kinds |-> <<>>, idxs |-> <<>>, ok |-> TRUE]
                     ELSE forward_parents(events, idx + e.fp)
             here == IF e.kind = "TOMBSTONE" THEN <<>> ELSE <<e.kind>>
         IN  [kinds |-> here \o rest.kinds, idxs |-> <<idx>> \o rest.idxs, ok |-> rest.ok]

Reverse(s) == [k \in 1..Len(s) |-> s[Len(s) + 1 - k]]

\* One event of the buffer: the processor after it, and the sink calls.
ProcessEvent(q, toks) ==
    LET e == q.events[q.i]
        adv == [q EXCEPT !.i = @ + 1]
        ws == eat_ws(toks, q.token_pos)
        after_ws == q.token_pos + Len(ws)
    IN  CASE e.type = "Start" /\ e.kind = "TOMBSTONE" -> [ep |-> adv, calls |-> <<>>]
          [] e.type = "Start" /\ e.kind # "TOMBSTONE" ->
               LET ch == forward_parents(q.events, q.i)
                   kinds == Reverse(ch.kinds)
                   lead == IF kinds[1] = "SOURCE_FILE" THEN <<>> ELSE ws
                   cleared == [k \in 1..Len(q.events) |->
                                 IF \E j \in 1..Len(ch.idxs) : ch.idxs[j] = k
                                 THEN EvTombstone ELSE q.events[k]]
               IN  IF ~ch.ok THEN [ep |-> [q EXCEPT !.panic = "unreachable"], calls |-> <<>>]
                   ELSE [ep |-> [adv EXCEPT !.events = cleared,
                                            !.token_pos = @ + Len(lead)],
                         calls |-> lead \o [k \in 1..Len(kinds) |->
                                              Call("start_branch", kinds[k], <<>>, "")]]
          [] e.type = "Finish" ->
               LET last == q.i = Len(q.events)
                   tail == IF last THEN ws ELSE <<>>
               IN  [ep |-> [adv EXCEPT !.token_pos = @ + Len(tail)],
                    calls |-> Append(tail, Call("finish_branch", "", <<>>, ""))]
          [] e.type = "Token" ->
               IF after_ws + e.n > Len(toks)
               THEN [ep |-> [q EXCEPT !.panic = "index out of range"], calls |-> <<>>]
               ELSE [ep |-> [adv EXCEPT !.token_pos = after_ws + e.n],
                     calls |-> Append(ws, Call("leaf", e.kind,
                                 TextOf(SubSeq(toks, after_ws + 1, after_ws + e.n)), ""))]
          [] e.type = "Error" -> [ep |-> adv, calls |-> <<Call("error", "", <<>>, e.msg)>>]

(***************************************************************************)
(* FileBuilder: an arena of nodes linked by parent, first_child and        *)
(* next_sibling.  NodeIdx n is nodes[n + 1]; None is -1.                   *)
(***************************************************************************)
None == 0 - 1

NodeData(kind, start, end) ==
    [kind |-> kind, start |-> start, end |-> end,
     parent |-> None, first_child |-> None, next_sibling |-> None]

FileBuilderNew(text) ==
    [text |-> text, nodes |-> <<>>, errors |-> <<>>, in_progress |-> <<>>, pos |-> 0,
     panic |-> ""]

FbPanic(b, msg) == IF b.panic = "" THEN [b EXCEPT !.panic = msg] ELSE b

\* push_child: the new node is linked after the last child of the branch in
\* progress; fill asserts that the slot is still empty.
push_child(b, child) ==
    IF b.in_progress = <<>> THEN FbPanic(b, "called Option::unwrap() on a None value")
    ELSE LET top == Last(b.in_progress)
             parent == top[1]
             sibling == top[2]
             id == Len(b.nodes)
             linked == Append(b.nodes, [child EXCEPT !.parent = parent])
             slot == IF sibling # None THEN linked[sibling + 1].next_sibling
                     ELSE linked[parent + 1].first_child
             filled == IF sibling # None
                       THEN [linked EXCEPT ![sibling + 1].next_sibling = id]
                       ELSE [linked EXCEPT ![parent + 1].first_child = id]
         IN  IF slot # None THEN FbPanic(b, "assertion failed: slot.is_none()")
             ELSE [b EXCEPT !.nodes = filled,
                            !.in_progress[Len(b.in_progress)] = <<parent, id>>]

\* add_len: grow the range of the branch in progress by the child's range.
add_len(b, child) ==
    IF b.panic # "" THEN b
    ELSE IF b.in_progress = <<>> THEN FbPanic(b, "called Option::unwrap() on a None value")
    ELSE LET cur == Last(b.in_progress)[1]
             left == b.nodes[cur + 1]
             right == b.nodes[child + 1]
         IN  IF left.end # right.start THEN FbPanic(b, "assertion failed: left.end() == right.start()")
             ELSE [b EXCEPT !.nodes[cur + 1].end = right.end]

\* leaf that does not advance the position of the builder.
fb_leaf_keeps_pos(b, kind, len) ==
    IF b.panic # "" THEN b
    ELSE LET leaf == NodeData(kind, b.pos, b.pos + len)
             b1 == push_child(b, leaf)
         IN  add_len(b1, Len(b.nodes))

fb_leaf(b, kind, len) ==
    IF b.panic # "" THEN b
    ELSE LET leaf == NodeData(kind, b.pos, b.pos + len)
             b1 == push_child([b EXCEPT !.pos = @ + len], leaf)
         IN  add_len(b1, Len(b.nodes))

start_internal(b, kind) ==
    IF b.panic # "" THEN b
    ELSE LET node == NodeData(kind, b.pos, b.pos)
             id == Len(b.nodes)
             b1 == IF b.in_progress = <<>> THEN [b EXCEPT !.nodes = Append(@, node)]
                   ELSE push_child(b, node)
         IN  IF b1.panic # "" THEN b1
             ELSE [b1 EXCEPT !.in_progress = Append(@, <<id, None>>)]

\* finish_internal that leaves the last frame on the stack.
finish_internal_keeps_root(b) ==
    IF b.panic # "" THEN b
    ELSE IF b.in_progress = <<>> THEN FbPanic(b, "called Option::unwrap() on a None value")
    ELSE LET id == Last(b.in_progress)[1]
         IN  IF Len(b.in_progress) > 1 THEN add_len([b EXCEPT !.in_progress = Front(@)], id)
             ELSE b

finish_internal(b) ==
    IF b.panic # "" THEN b
    ELSE IF b.in_progress = <<>> THEN FbPanic(b, "called Option::unwrap() on a None value")
    ELSE LET id == Last(b.in_progress)[1]
             b1 == [b EXCEPT !.in_progress = Front(@)]
         IN  IF b1.in_progress # <<>> THEN add_len(b1, id) ELSE b1

fb_error(b, message) ==
    IF b.panic # "" THEN b
    ELSE IF b.in_progress = <<>> THEN FbPanic(b, "called Option::unwrap() on a None value")
    ELSE [b EXCEPT !.errors = Append(@, [node |-> Last(b.in_progress)[1],
                                         message |-> message,
                                         after_child |-> Last(b.in_progress)[2]])]

fb_finish(b) ==
    IF b.panic # "" THEN b
    ELSE IF b.in_progress # <<>> THEN FbPanic(b, "some nodes in FileBuilder are unfinished")
    ELSE IF b.pos # Len(b.text) THEN FbPanic(b, "nodes in FileBuilder do not cover the whole file")
    ELSE b

FbCall(b, c) ==
    CASE c.op = "leaf" -> fb_leaf(b, c.kind, Len(c.text))
      [] c.op = "start_branch" -> start_internal(b, c.kind)
      [] c.op = "finish_branch" -> finish_internal(b)
      [] c.op = "error" -> fb_error(b, c.msg)

(***************************************************************************)
(* Green nodes.  A leaf is either interned whitespace (newlines followed   *)
(* by spaces) or a token that stores its text only when the kind has no    *)
(* static text; a branch stores its kind, the sum of the lengths of its    *)
(* children, and the children.                                             *)
(***************************************************************************)
N_NEWLINES == 16

N_SPACES == 64

WS == [k \in 1..(N_NEWLINES + N_SPACES) |-> IF k <= N_NEWLINES THEN "\n" ELSE " "]

\* The text of the kinds whose text is fixed (punctuation and keywords);
\* <<>> for the kinds that have none.
static_text(kind) ==
    CASE kind = "SEMI" -> <<";">>
      [] kind = "COMMA" -> <<",">>
      [] kind = "DOT" -> <<".">>
      [] kind = "L_PAREN" -> <<"(">>
      [] kind = "R_PAREN" -> <<")">>
      [] kind = "L_CURLY" -> <<"{">>
      [] kind = "R_CURLY" -> <<"}">>
      [] kind = "L_BRACK" -> <<"[">>
      [] kind = "R_BRACK" -> <<"]">>
      [] kind = "L_ANGLE" -> <<"<">>
      [] kind = "R_ANGLE" -> <<">">>
      [] kind = "AMP" -> <<"&">>
      [] kind = "PIPE" -> <<"|">>
      [] kind = "PLUS" -> <<"+">>
      [] kind = "STAR" -> <<"*">>
      [] kind = "SLASH" -> <<"/">>
      [] kind = "CARET" -> <<"^">>
      [] kind = "PERCENT" -> <<"%">>
      [] kind = "MINUS" -> <<"-">>
      [] kind = "EQ" -> <<"=">>
      [] kind = "EXCL" -> <<"!">>
      [] kind = "COLON" -> <<":">>
      [] kind = "QUESTION" -> <<"?">>
      [] kind = "UNDERSCORE" -> <<"_">>
      [] kind = "DOTDOT" -> <<".", ".">>
      [] kind = "DOTDOTEQ" -> <<".", ".", "=">>
      [] kind = "COLONCOLON" -> <<":", ":">>
      [] kind = "EQEQ" -> <<"=", "=">>
      [] kind = "NEQ" -> <<"!", "=">>
      [] kind = "LTEQ" -> <<"<", "=">>
      [] kind = "GTEQ" -> <<">", "=">>
      [] kind = "PLUSEQ" -> <<"+", "=">>
      [] kind = "MINUSEQ" -> <<"-", "=">>
      [] kind = "STAREQ" -> <<"*", "=">>
      [] kind = "SLASHEQ" -> <<"/", "=">>
      [] kind = "PERCENTEQ" -> <<"%", "=">>
      [] kind = "CARETEQ" -> <<"^", "=">>
      [] kind = "AMPEQ" -> <<"&", "=">>
      [] kind = "PIPEEQ" -> <<"|", "=">>
      [] kind = "AMPAMP" -> <<"&", "&">>
      [] kind = "PIPEPIPE" -> <<"|", "|">>
      [] kind = "SHL" -> <<"<", "<">>
      [] kind = "SHR" -> <<">", ">">>
      [] kind = "SHLEQ" -> <<"<", "<", "=">>
      [] kind = "SHREQ" -> <<">", ">", "=">>
      [] kind = "THIN_ARROW" -> <<"-", ">">>
      [] kind = "FN_KW" -> <<"f", "n">>
      [] kind = "LET_KW" -> <<"l", "e", "t">>
      [] kind = "IF_KW" -> <<"i", "f">>
      [] kind = "ELSE_KW" -> <<"e", "l", "s", "e">>
      [] kind = "AS_KW" -> <<"a", "s">>
      [] kind = "MUT_KW" -> <<"m", "u", "t">>
      [] kind = "SELF_KW" -> <<"s", "e", "l", "f">>
      [] OTHER -> <<>>

RECURSIVE CountPrefix(_, _)
CountPrefix(text, c) ==
    IF text # <<>> /\ Head(text) = c THEN 1 + CountPrefix(Tail(text), c) ELSE 0

\* GreenLeaf::new with the limits of the interned form taken as strict.
GreenLeafNew_strict_limits(kind, text) ==
    LET newlines == CountPrefix(text, "\n")
        spaces == CountPrefix(SubSeq(text, newlines + 1, Len(text)), " ")
    IN  IF /\ kind = "WHITESPACE"
           /\ newlines + spaces = Len(text)
           /\ newlines < N_NEWLINES
           /\ spaces < N_SPACES
        THEN [g |-> "Whitespace", kind |-> "WHITESPACE", newlines |-> newlines,
              spaces |-> spaces, has_text |-> FALSE, text |-> <<>>,
              text_len |-> 0, children |-> <<>>]
        ELSE [g |-> "Token", kind |-> kind, newlines |-> 0, spaces |-> 0,
              has_text |-> static_text(kind) = <<>>,
              text |-> IF static_text(kind) = <<>> THEN text ELSE <<>>,
              text_len |-> 0, children |-> <<>>]

GreenLeafNew(kind, text) ==
    LET newlines == CountPrefix(text, "\n")
        spaces == CountPrefix(SubSeq(text, newlines + 1, Len(text)), " ")
    IN  IF /\ kind = "WHITESPACE"
           /\ newlines + spaces = Len(text)
           /\ newlines <= N_NEWLINES
           /\ spaces <= N_SPACES
        THEN [g |-> "Whitespace", kind |-> "WHITESPACE", newlines |-> newlines,
              spaces |-> spaces, has_text |-> FALSE, text |-> <<>>,
              text_len |-> 0, children |-> <<>>]
        ELSE [g |-> "Token", kind |-> kind, newlines |-> 0, spaces |-> 0,
              has_text |-> static_text(kind) = <<>>,
              text |-> IF static_text(kind) = <<>> THEN text ELSE <<>>,
              text_len |-> 0, children |-> <<>>]

\* The text of interned whitespace cut one character short.
GreenLeafText_short_ws(leaf) ==
    IF leaf.g = "Whitespace"
    THEN SubSeq(WS, N_NEWLINES - leaf.newlines + 1, N_NEWLINES + leaf.spaces - 1)
    ELSE IF leaf.has_text THEN leaf.text ELSE static_text(leaf.kind)

GreenLeafText(leaf) ==
    IF leaf.g = "Whitespace"
    THEN SubSeq(WS, N_NEWLINES - leaf.newlines + 1, N_NEWLINES + leaf.spaces)
    ELSE IF leaf.has_text THEN leaf.text ELSE static_text(leaf.kind)

GreenTextLen(node) ==
    IF node.g = "Branch" THEN node.text_len ELSE Len(GreenLeafText(node))

GreenBranchNew(kind, children) ==
    [g |-> "Branch", kind |-> kind, newlines |-> 0, spaces |-> 0, has_text |-> FALSE,
     text |-> <<>>,
     text_len |-> SumSeq([k \in 1..Len(children) |-> GreenTextLen(children[k])]),
     children |-> children]

\* A text that is put together from the leaves right below the node.
GreenText_direct_leaves(node) ==
    IF node.g = "Branch"
    THEN Concat([k \in 1..Len(node.children) |->
                    IF node.children[k].g = "Branch" THEN <<>>
                    ELSE GreenLeafText(node.children[k])])
    ELSE GreenLeafText(node)

\* GreenNode::text: the texts of the leaves in tree order.
RECURSIVE GreenText(_)
GreenText(node) ==
    IF node.g = "Branch"
    THEN Concat([k \in 1..Len(node.children) |-> GreenText(node.children[k])])
    ELSE GreenLeafText(node)

\* The leaves of a green tree in tree order, as (kind, text) pairs.
RECURSIVE GreenLeaves(_)
GreenLeaves(node) ==
    IF node.g = "Branch"
    THEN Concat([k \in 1..Len(node.children) |-> GreenLeaves(node.children[k])])
    ELSE <<Tok(node.kind, GreenLeafText(node))>>

(***************************************************************************)
(* Green builder: the sink that builds green nodes bottom-up.  The stack   *)
(* holds the unfinished branches, each with the children it has so far;    *)
(* finish hands over the tree when the calls left exactly one root.        *)
(***************************************************************************)
NoRoot == [g |-> "None"]

GreenBuilderNew ==
    [stack |-> <<>>, root |-> NoRoot, nroots |-> 0, errors |-> <<>>, panic |-> ""]

GbPanic(b, msg) == IF b.panic = "" THEN [b EXCEPT !.panic = msg] ELSE b

gb_push(b, node) ==
    IF b.stack = <<>> THEN GbPanic(b, "no branch is open")
    ELSE [b EXCEPT !.stack[Len(b.stack)].children = Append(@, node)]

gb_leaf(b, kind, text) == IF b.panic # "" THEN b ELSE gb_push(b, GreenLeafNew(kind, text))

gb_start_branch(b, kind) ==
    IF b.panic # "" THEN b
    ELSE [b EXCEPT !.stack = Append(@, [kind |-> kind, children |-> <<>>])]

gb_finish_branch(b) ==
    IF b.panic # "" THEN b
    ELSE IF b.stack = <<>> THEN GbPanic(b, "no branch is open")
    ELSE LET top == Last(b.stack)
             node == GreenBranchNew(top.kind, top.children)
             rest == [b EXCEPT !.stack = Front(@)]
         IN  IF rest.stack = <<>> THEN [rest EXCEPT !.root = node, !.nroots = @ + 1]
             ELSE gb_push(rest, node)

gb_error(b, message) ==
    IF b.panic # "" THEN b ELSE [b EXCEPT !.errors = Append(@, message)]

gb_finish(b) ==
    IF b.panic # "" THEN b
    ELSE IF b.stack # <<>> THEN GbPanic(b, "unfinished tree")
    ELSE IF b.nroots # 1 THEN GbPanic(b, "not one tree")
    ELSE b

GbCall(b, c) ==
    CASE c.op = "leaf" -> gb_leaf(b, c.kind, c.text)
      [] c.op = "start_branch" -> gb_start_branch(b, c.kind)
      [] c.op = "finish_branch" -> gb_finish_branch(b)
      [] c.op = "error" -> gb_error(b, c.msg)

RECURSIVE FbCalls(_, _)
FbCalls(b, calls) == IF calls = <<>> THEN b ELSE FbCalls(FbCall(b, Head(calls)), Tail(calls))

RECURSIVE GbCalls(_, _)
GbCalls(b, calls) == IF calls = <<>> THEN b ELSE GbCalls(GbCall(b, Head(calls)), Tail(calls))

(***************************************************************************)
(* The pipeline specification: parse_with on a file.  The inputs are the   *)
(* token sequences of the texts  fn f(){ BODY }  and  fn f< GENERICS (){}  *)
(* with BODY and GENERICS every sequence over a small alphabet.            *)
(***************************************************************************)
MaxBody == 3

MaxGenerics == 3

T(kind) == Tok(kind, static_text(kind))

BodyAlphabet ==
    {Tok("IDENT", <<"a">>), Tok("INT_NUMBER", <<"1">>), Tok("WHITESPACE", <<" ">>),
     Tok("WHITESPACE", <<"\n", "\t">>),
     T("PLUS"), T("STAR"), T("EQ"), T("SEMI"), T("DOT"), T("L_PAREN"), T("R_PAREN"),
     T("L_CURLY"), T("R_CURLY"), T("LET_KW")}

GenericsAlphabet ==
    {Tok("IDENT", <<"T">>), Tok("LIFETIME", <<"'", "a">>), Tok("WHITESPACE", <<" ">>),
     T("COLON"), T("COMMA"), T("PLUS"), T("QUESTION"), T("L_PAREN"), T("R_PAREN"),
     T("R_ANGLE"), T("EQ")}

FnHead == <<T("FN_KW"), Tok("WHITESPACE", <<" ">>), Tok("IDENT", <<"f">>)>>

FileInputs ==
    {FnHead \o <<T("L_PAREN"), T("R_PAREN"), T("L_CURLY")>> \o body \o <<T("R_CURLY")>> :
        body \in SeqsUpTo(BodyAlphabet, MaxBody)}
    \cup
    {FnHead \o <<T("L_ANGLE")>> \o generics
            \o <<T("L_PAREN"), T("R_PAREN"), T("L_CURLY"), T("R_CURLY")>> :
        generics \in SeqsUpTo(GenericsAlphabet, MaxGenerics)}

NoCore == [family |-> "file"]

\* An entry point of the grammar with its arguments.
Entry(fn, bp, r) == [fn |-> fn, bp |-> bp, r |-> r]

Init ==
    /\ tokens \in FileInputs
    /\ pc = "input"
    /\ entry = Entry("root", 0, Restrictions(FALSE, FALSE))
    /\ ps = ParserImplNew(ParserInput(tokens))
    /\ ep = EventProcessorNew(<<>>)
    /\ fb = FileBuilderNew(TextOf(tokens))
    /\ gb = GreenBuilderNew
    /\ core = NoCore

\* The grammar runs to completion over the parser and hands over its events.
Parse ==
    /\ pc = "input"
    /\ entry.fn = "root"
    /\ ps' = into_events(root(ps))
    /\ ep' = EventProcessorNew(ps'.events)
    /\ pc' = IF Ok(ps') THEN "parsed" ELSE "aborted"
    /\ UNCHANGED <<tokens, entry, fb, gb, core>>

\* EventProcessor::process, one event per step.
Process ==
    /\ pc = "parsed"
    /\ ep.i <= Len(ep.events)
    /\ LET r == ProcessEvent(ep, tokens)
       IN  /\ ep' = r.ep
           /\ fb' = FbCalls(fb, r.calls)
           /\ gb' = GbCalls(gb, r.calls)
           /\ pc' = IF r.ep.panic = "" /\ fb'.panic = "" /\ gb'.panic = ""
                    THEN "parsed" ELSE "aborted"
    /\ UNCHANGED <<tokens, entry, ps, core>>

\* Sink::finish once every event has been replayed.
Finish ==
    /\ pc = "parsed"
    /\ ep.i > Len(ep.events)
    /\ fb' = fb_finish(fb)
    /\ gb' = gb_finish(gb)
    /\ pc' = IF fb'.panic = "" /\ gb'.panic = "" THEN "done" ELSE "aborted"
    /\ UNCHANGED <<tokens, entry, ps, ep, core>>

Next == Parse \/ Process \/ Finish

Spec == Init /\ [][Next]_vars

\* The text the arena of FileBuilder covers: the ranges of the childless
\* nodes in arena order, cut out of the text.
FbLeafText(b) ==
    Concat([k \in 1..Len(b.nodes) |->
              IF b.nodes[k].first_child = None
              THEN SubSeq(b.text, b.nodes[k].start + 1, b.nodes[k].end)
              ELSE <<>>])

(***************************************************************************)
(* Properties of the pipeline.                                             *)
(***************************************************************************)
Parsed == entry.fn = "root" /\ pc \in {"parsed", "done"}

HasEvent(events, type, kind) ==
    \E k \in 1..Len(events) : events[k].type = type /\ events[k].kind = kind

HasToken(toks, kind) == \E k \in 1..Len(toks) : toks[k].kind = kind

\* No Token event fuses raw tokens.
NoFusion(events) == \A k \in 1..Len(events) : events[k].type = "Token" => events[k].n = 1

\* C1: round trip of a fresh parse.  The texts of the leaves of the built
\* tree, in tree order, are the input text: the green tree and the arena
\* of FileBuilder both reproduce it, the builder's final position is the
\* length of the text (its assertion never fails), and when no tokens are
\* fused the leaves are the input tokens, none dropped, doubled or moved.
C1_RoundTrip ==
    entry.fn = "root" =>
        /\ fb.panic # "nodes in FileBuilder do not cover the whole file"
        /\ pc = "done" =>
              /\ GreenText(gb.root) = TextOf(tokens)
              /\ GreenTextLen(gb.root) = Len(TextOf(tokens))
              /\ FbLeafText(fb) = TextOf(tokens)
              /\ fb.pos = Len(TextOf(tokens))
              /\ NoFusion(ps.events) => GreenLeaves(gb.root) = tokens

\* A finished build of a text with whitespace, a fused operator and a
\* syntax error.
C1_Witness ==
    /\ entry.fn = "root" /\ pc = "done"
    /\ HasToken(tokens, "WHITESPACE")
    /\ \E k \in 1..Len(ps.events) : ps.events[k].type = "Token" /\ ps.events[k].n = 2
    /\ \E k \in 1..Len(ps.events) : ps.events[k].type = "Error"

\* C5: marker linearity.  Every Marker of the grammar is consumed exactly
\* once: none is completed or abandoned twice, and none is left when the
\* grammar returns, so the guard of Marker never fires.
C5_MarkerLinearity ==
    (entry.fn = "root" /\ pc # "input") =>
        /\ ps.live = {}
        /\ ps.panic \notin {"marker consumed twice",
                            "Marker must be either completed or abandoned"}

\* A parse of type parameters in which bounds_without_colon abandoned its
\* inner marker after tokens were consumed under it.
C5_Witness ==
    /\ Parsed
    /\ HasEvent(ps.events, "Start", "TYPE_BOUND_LIST")
    /\ HasEvent(ps.events, "Start", "TYPE_PARAM_LIST")
    /\ HasEvent(ps.events, "Start", "TOMBSTONE")

NStarts(events) == Cardinality({k \in 1..Len(events) : events[k].type = "Start"})

NOpenStarts(events) ==
    Cardinality({k \in 1..Len(events) :
                    events[k].type = "Start" /\ events[k].kind # "TOMBSTONE"})

NFinishes(events) == Cardinality({k \in 1..Len(events) : events[k].type = "Finish"})

\* The events nest like parentheses, with the Starts for which open holds
\* as the opening ones: no Finish without an open Start, none left open.
RECURSIVE Nests(_, _, _, _)
Nests(events, k, depth, tombstones_open) ==
    IF k > Len(events) THEN depth = 0
    ELSE LET e == events[k]
         IN  IF e.type = "Start" /\ (tombstones_open \/ e.kind # "TOMBSTONE")
             THEN Nests(events, k + 1, depth + 1, tombstones_open)
             ELSE IF e.type = "Finish"
             THEN depth > 0 /\ Nests(events, k + 1, depth - 1, tombstones_open)
             ELSE Nests(events, k + 1, depth, tombstones_open)

\* Every forward_parent link points at a later Start of the buffer.
ForwardParentsInBuffer(events) ==
    \A k \in 1..Len(events) :
        (events[k].type = "Start" /\ events[k].fp # 0) =>
            /\ events[k].fp > 0
            /\ k + events[k].fp <= Len(events)
            /\ events[k + events[k].fp].type = "Start"

\* C6, as the code has it: in the event buffer of a finished parse every
\* Start whose kind is not TOMBSTONE has exactly one matching Finish, and
\* these Starts and the Finishes nest like parentheses; a Start left behind
\* by an abandoned marker keeps the kind TOMBSTONE and has no Finish.
C6_EventBalance ==
    Parsed =>
        /\ NOpenStarts(ps.events) = NFinishes(ps.events)
        /\ Nests(ps.events, 1, 0, FALSE)
        /\ ForwardParentsInBuffer(ps.events)

\* C6 as stated: every Start event of the buffer has exactly one Finish.
C6_EveryStartHasFinish ==
    Parsed =>
        /\ NStarts(ps.events) = NFinishes(ps.events)
        /\ Nests(ps.events, 1, 0, TRUE)

\* A finished parse with a precede link, an Error and a Start that an
\* abandoned marker left behind.
C6_Witness ==
    /\ Parsed
    /\ HasEvent(ps.events, "Start", "TOMBSTONE")
    /\ HasEvent(ps.events, "Start", "BIN_EXPR")
    /\ \E k \in 1..Len(ps.events) : ps.events[k].type = "Start" /\ ps.events[k].fp > 0

\* C7: sink balance.  The replay of the events never calls finish_branch,
\* leaf or error with no branch open (neither builder fails), and when
\* finish is called every branch has been closed: the in-progress stack of
\* FileBuilder and the stack of the green builder are empty.
C7_SinkBalance ==
    entry.fn = "root" =>
        /\ fb.panic = "" /\ gb.panic = "" /\ ep.panic = ""
        /\ (pc = "parsed" /\ ep.i > Len(ep.events)) =>
              fb.in_progress = <<>> /\ gb.stack = <<>>
        /\ pc = "done" => fb.in_progress = <<>> /\ gb.stack = <<>> /\ gb.root # NoRoot

\* A finished build whose events held a forward_parent chain through a
\* tombstone and an error reported to the sink.
C7_Witness ==
    /\ entry.fn = "root" /\ pc = "done"
    /\ fb.errors # <<>>
    /\ \E k \in 1..Len(ps.events) :
          /\ ps.events[k].type = "Start" /\ ps.events[k].fp > 0
          /\ ps.events[k + ps.events[k].fp].kind = "TOMBSTONE"

(***************************************************************************)
(* The expression specification: expr_bp on the tokens of a binary         *)
(* expression.  An operator is the sequence of its raw tokens; the         *)
(* operands are identifiers or integer literals, written with or without   *)
(* blanks around the operators.                                            *)
(***************************************************************************)
MaxFloor == 12

SimpleOps ==
    {<<T("EQ")>>, <<T("DOTDOT")>>, <<T("DOTDOTEQ")>>, <<T("EQEQ")>>, <<T("NEQ")>>,
     <<T("L_ANGLE")>>, <<T("R_ANGLE")>>, <<T("PIPE")>>, <<T("CARET")>>, <<T("AMP")>>,
     <<T("MINUS")>>, <<T("PLUS")>>, <<T("STAR")>>, <<T("SLASH")>>, <<T("PERCENT")>>}

CompositeOps ==
    {<<T("L_ANGLE"), T("L_ANGLE"), T("EQ")>>, <<T("R_ANGLE"), T("R_ANGLE"), T("EQ")>>,
     <<T("PLUS"), T("EQ")>>, <<T("MINUS"), T("EQ")>>, <<T("STAR"), T("EQ")>>,
     <<T("PERCENT"), T("EQ")>>, <<T("SLASH"), T("EQ")>>, <<T("PIPE"), T("EQ")>>,
     <<T("AMP"), T("EQ")>>, <<T("CARET"), T("EQ")>>, <<T("PIPE"), T("PIPE")>>,
     <<T("AMP"), T("AMP")>>, <<T("L_ANGLE"), T("EQ")>>, <<T("R_ANGLE"), T("EQ")>>,
     <<T("L_ANGLE"), T("L_ANGLE")>>, <<T("R_ANGLE"), T("R_ANGLE")>>}

TableOps == SimpleOps \cup CompositeOps

\* Tokens that are no operator and that no postfix form starts with.
NonOps ==
    {<<T("SEMI")>>, <<T("COMMA")>>, <<T("R_PAREN")>>, <<T("R_CURLY")>>, <<T("R_BRACK")>>,
     <<T("COLON")>>, <<T("LET_KW")>>}

\* What current_op says of an operator: binding power, fused kind, tokens.
OpOf(op) == current_op(ParserImplNew(ParserInput(op)))

BpOf(op) == OpOf(op).bp

OpKind(op) == IF OpOf(op).n = 0 THEN op[1].kind ELSE OpOf(op).kind

Blank == Tok("WHITESPACE", <<" ">>)

Operands == {<<Tok("IDENT", <<"a">>), Tok("IDENT", <<"b">>), Tok("IDENT", <<"c">>)>>,
             <<Tok("INT_NUMBER", <<"1">>), Tok("INT_NUMBER", <<"2">>),
               Tok("INT_NUMBER", <<"3">>)>>}

Spaced(op, blanks) == IF blanks THEN <<Blank>> \o op \o <<Blank>> ELSE op

InitExpr ==
    /\ pc = "input"
    /\ gb = GreenBuilderNew
    /\ ep = EventProcessorNew(<<>>)
    /\ \/ \E op1 \in TableOps, op2 \in TableOps, xs \in Operands, blanks \in BOOLEAN :
            /\ tokens = <<xs[1]>> \o Spaced(op1, blanks) \o <<xs[2]>>
                                  \o Spaced(op2, blanks) \o <<xs[3]>>
            /\ entry = Entry("expr_bp", 1, Restrictions(FALSE, FALSE))
            /\ core = [family |-> "chain", op1 |-> op1, op2 |-> op2, xs |-> xs]
       \/ \E op1 \in TableOps \cup NonOps, xs \in Operands, blanks \in BOOLEAN,
             bp \in 1..MaxFloor, prefer_stmt \in BOOLEAN :
            /\ tokens = <<xs[1]>> \o Spaced(op1, blanks) \o <<xs[2]>>
            /\ entry = Entry("expr_bp", bp, Restrictions(FALSE, prefer_stmt))
            /\ core = [family |-> "floor", op1 |-> op1, op2 |-> op1, xs |-> xs]
    /\ fb = FileBuilderNew(TextOf(tokens))
    /\ ps = ParserImplNew(ParserInput(tokens))

\* expr_bp runs to completion; the tokens it leaves are not consumed.
ExprParse ==
    /\ pc = "input"
    /\ entry.fn = "expr_bp"
    /\ ps' = Run("expr_bp", <<ps, entry.r, entry.bp>>)
    /\ ep' = EventProcessorNew(ps'.events)
    /\ pc' = IF Ok(ps') THEN "parsed" ELSE "aborted"
    /\ UNCHANGED <<tokens, entry, fb, gb, core>>

\* The green builder hands over the tree of the fragment.
ExprFinish ==
    /\ pc = "parsed"
    /\ entry.fn = "expr_bp"
    /\ ep.i > Len(ep.events)
    /\ gb' = gb_finish(gb)
    /\ pc' = IF gb'.panic = "" THEN "built" ELSE "aborted"
    /\ UNCHANGED <<tokens, entry, ps, ep, fb, core>>

NextExpr == ExprParse \/ Process \/ ExprFinish

SpecExpr == InitExpr /\ [][NextExpr]_vars

\* A tree written as a flat list: a branch is ( kind children ), a leaf is
\* [ kind text ]; trivia leaves are left out.
RECURSIVE Shape(_)
Shape(node) ==
    IF node.g = "Branch"
    THEN <<"(", node.kind>>
         \o Concat([k \in 1..Len(node.children) |-> Shape(node.children[k])]) \o <<")">>
    ELSE IF is_insignificant(node.kind) THEN <<>>
    ELSE <<"[", node.kind>> \o GreenLeafText(node) \o <<"]">>

\* The tree of an operand: a path expression or a literal.
OperandShape(x) ==
    IF x.kind = "IDENT"
    THEN <<"(", "PATH_EXPR", "(", "PATH", "(", "PATH_SEGMENT", "(", "NAME_REF",
           "[", "IDENT">> \o x.text \o <<"]", ")", ")", ")", ")">>
    ELSE <<"(", "LITERAL", "[", x.kind>> \o x.text \o <<"]", ")">>

\* BIN(l, op, r): a RANGE_EXPR for the range operators, else a BIN_EXPR.
BinShape(l, op, r) ==
    <<"(", IF OpKind(op) \in {"DOTDOT", "DOTDOTEQ"} THEN "RANGE_EXPR" ELSE "BIN_EXPR">>
    \o l \o <<"[", OpKind(op)>> \o TextOf(op) \o <<"]">> \o r \o <<")">>

LeftShape(op1, op2, xs) ==
    BinShape(BinShape(OperandShape(xs[1]), op1, OperandShape(xs[2])), op2,
             OperandShape(xs[3]))

RightShape(op1, op2, xs) ==
    BinShape(OperandShape(xs[1]), op1,
             BinShape(OperandShape(xs[2]), op2, OperandShape(xs[3])))

Built == entry.fn = "expr_bp" /\ pc = "built"

\* C9: precedence.  For operators op1 and op2 of the table, a op1 b op2 c
\* parses as BIN(a, op1, BIN(b, op2, c)) when op2 binds strictly tighter
\* than op1 and as BIN(BIN(a, op1, b), op2, c) when op1 binds strictly
\* tighter; BIN is a BIN_EXPR, and a RANGE_EXPR for the operators .. and ..=
C9_Precedence ==
    (Built /\ core.family = "chain") =>
        /\ BpOf(core.op2) > BpOf(core.op1) =>
              Shape(gb.root) = RightShape(core.op1, core.op2, core.xs)
        /\ BpOf(core.op1) > BpOf(core.op2) =>
              Shape(gb.root) = LeftShape(core.op1, core.op2, core.xs)

\* 1 + 2 * 3 has been parsed and built.
C9_Witness ==
    /\ Built /\ core.family = "chain"
    /\ core.op1 = <<T("PLUS")>> /\ core.op2 = <<T("STAR")>>
    /\ TextOf(tokens) = <<"1", " ", "+", " ", "2", " ", "*", " ", "3">>
    /\ Shape(gb.root) = RightShape(core.op1, core.op2, core.xs)

\* C10: left associativity.  Operators of equal binding power compose to
\* the left, for every operator of the table, = and the compound
\* assignments included; and expr_bp returns with the cursor on the token
\* that ended its loop: an operator below the floor of the call, or a token
\* that is no operator, is not consumed.
C10_LeftAssociativity ==
    /\ (Built /\ core.family = "chain" /\ BpOf(core.op2) = BpOf(core.op1)) =>
          Shape(gb.root) = LeftShape(core.op1, core.op2, core.xs)
    /\ (entry.fn = "expr_bp" /\ pc \in {"parsed", "built"}) =>
          current_op(ps).bp < entry.bp
    /\ (Built /\ core.family = "floor") =>
          IF BpOf(core.op1) < entry.bp
          THEN /\ Shape(gb.root) = OperandShape(core.xs[1])
               /\ ps.pos = 1
               /\ Current(ps) = core.op1[1].kind
          ELSE /\ Shape(gb.root) = BinShape(OperandShape(core.xs[1]), core.op1,
                                            OperandShape(core.xs[2]))
               /\ Current(ps) = "EOF"

\* 1 - 2 - 3 has been parsed and built.
C10_Witness ==
    /\ Built /\ core.family = "chain"
    /\ core.op1 = <<T("MINUS")>> /\ core.op2 = <<T("MINUS")>>
    /\ TextOf(tokens) = <<"1", " ", "-", " ", "2", " ", "-", " ", "3">>
    /\ Shape(gb.root) = LeftShape(core.op1, core.op2, core.xs)

(***************************************************************************)
(* The parser-core specification: any sequence of the operations of the    *)
(* parser API that the types allow.  A Marker is consumed once, by         *)
(* complete or abandon; a CompletedMarker is consumed by precede.  The     *)
(* markers are numbered in the order of their creation and marker i is     *)
(* completed with the kind CoreKinds[i], so that every node of the built   *)
(* tree names the marker it came from.  core.markers records, for each     *)
(* marker, what the driver knows of it:                                    *)
(*   pos       the Start it owns,       from     the marker it precedes,   *)
(*   state     live, completed or abandoned,     preceded,                 *)
(*   fin       the position of its Finish,                                 *)
(*   born, died   the operation count at its creation and consumption,     *)
(*   tok_lo, tok_hi   the token cursor at its creation and completion,     *)
(*   adjacent  for a precede marker: the Finish of the preceded node was   *)
(*             the last event of the buffer when precede was called.       *)
(***************************************************************************)
MaxOps == 10

MaxMarkers == 4

CoreTokens == <<Tok("IDENT", <<"a">>), Tok("IDENT", <<"b">>)>>

CoreKinds == <<"N1", "N2", "N3", "N4", "N5", "N6">>

NewMarker(p, from, nops) ==
    [pos |-> NextMarker(p), from |-> from, state |-> "live", preceded |-> FALSE,
     fin |-> NoMarker, born |-> nops, died |-> 0, tok_lo |-> p.pos, tok_hi |-> p.pos,
     adjacent |-> FALSE]

InitCore ==
    /\ tokens = CoreTokens
    /\ pc = "core"
    /\ entry = Entry("core", 0, Restrictions(FALSE, FALSE))
    /\ ps = ParserImplNew(ParserInput(tokens))
    /\ ep = EventProcessorNew(<<>>)
    /\ fb = FileBuilderNew(TextOf(tokens))
    /\ gb = GreenBuilderNew
    /\ core = [family |-> "core", markers |-> <<>>, nops |-> 0]

CoreStep == pc = "core" /\ core.nops < MaxOps

CoreStart ==
    /\ CoreStep
    /\ Len(core.markers) < MaxMarkers
    /\ ps' = Start(ps)
    /\ core' = [core EXCEPT !.nops = @ + 1,
                            !.markers = Append(@, NewMarker(ps, 0, core.nops + 1))]
    /\ UNCHANGED <<tokens, pc, entry, ep, fb, gb>>

CoreBump ==
    /\ CoreStep
    /\ ps.pos < Len(ps.inp)
    /\ ps' = Bump(ps)
    /\ core' = [core EXCEPT !.nops = @ + 1]
    /\ UNCHANGED <<tokens, pc, entry, ep, fb, gb>>

CoreComplete ==
    /\ CoreStep
    /\ \E i \in 1..Len(core.markers) :
          /\ core.markers[i].state = "live"
          /\ ps' = Complete(ps, core.markers[i].pos, CoreKinds[i])
          /\ core' = [core EXCEPT !.nops = @ + 1,
                                  !.markers[i].state = "completed",
                                  !.markers[i].fin = ps'.fin,
                                  !.markers[i].died = core.nops + 1,
                                  !.markers[i].tok_hi = ps.pos]
    /\ UNCHANGED <<tokens, pc, entry, ep, fb, gb>>

CoreAbandon ==
    /\ CoreStep
    /\ \E i \in 1..Len(core.markers) :
          /\ core.markers[i].state = "live"
          /\ ps' = Abandon(ps, core.markers[i].pos)
          /\ core' = [core EXCEPT !.nops = @ + 1,
                                  !.markers[i].state = "abandoned",
                                  !.markers[i].died = core.nops + 1]
    /\ UNCHANGED <<tokens, pc, entry, ep, fb, gb>>

CorePrecede ==
    /\ CoreStep
    /\ Len(core.markers) < MaxMarkers
    /\ \E i \in 1..Len(core.markers) :
          /\ core.markers[i].state = "completed"
          /\ ~core.markers[i].preceded
          /\ ps' = Precede(ps, core.markers[i].pos)
          /\ core' = [core EXCEPT
                         !.nops = @ + 1,
                         !.markers = Append([@ EXCEPT ![i].preceded = TRUE],
                                            [NewMarker(ps, i, core.nops + 1) EXCEPT
                                               !.adjacent =
                                                  core.markers[i].fin = Len(ps.events) - 1])]
    /\ UNCHANGED <<tokens, pc, entry, ep, fb, gb>>

\* The replay of a whole event buffer into the green builder.
RECURSIVE ProcessAll(_, _, _)
ProcessAll(q, toks, g) ==
    IF q.panic # "" \/ g.panic # "" \/ q.i > Len(q.events) THEN [ep |-> q, gb |-> g]
    ELSE LET r == ProcessEvent(q, toks)
         IN  ProcessAll(r.ep, toks, GbCalls(g, r.calls))

\* The parse ends: into_events, then the replay and the finish of the sink.
CoreFinish ==
    /\ pc = "core"
    /\ core.nops > 0
    /\ ps' = into_events(ps)
    /\ LET r == ProcessAll(EventProcessorNew(ps'.events), tokens, gb)
       IN  IF Ok(ps')
           THEN /\ ep' = r.ep
                /\ gb' = gb_finish(r.gb)
                /\ pc' = IF r.ep.panic = "" /\ gb'.panic = "" THEN "built" ELSE "aborted"
           ELSE /\ pc' = "aborted"
                /\ UNCHANGED <<ep, gb>>
    /\ UNCHANGED <<tokens, entry, fb, core>>

NextCore ==
    CoreStart \/ CoreBump \/ CoreComplete \/ CoreAbandon \/ CorePrecede
    \/ CoreFinish

SpecCore == InitCore /\ [][NextCore]_vars

\* The branches of a tree in pre-order.
RECURSIVE Branches(_)
Branches(node) ==
    IF node.g = "Branch"
    THEN <<node>> \o Concat([k \in 1..Len(node.children) |-> Branches(node.children[k])])
    ELSE <<>>

\* The branches of kind k below (and including) node.
NodesOfKind(node, k) == SelectSeq(Branches(node), LAMBDA n : n.kind = k)

\* The place of the first branch of kind k in the pre-order of node; 0 if none.
PlaceOf(node, k) ==
    LET bs == Branches(node)
        at == {j \in 1..Len(bs) : bs[j].kind = k}
    IN  IF at = {} THEN 0 ELSE CHOOSE j \in at : \A l \in at : j <= l

\* Marker i was made by precede and has been completed.
Wrapper(i) == core.markers[i].from # 0 /\ core.markers[i].state = "completed"

\* Where the node of marker i starts in the buffer: at its own Start, or,
\* for a precede marker, where the node it precedes starts.
RECURSIVE StartOf(_)
StartOf(i) ==
    IF core.markers[i].from = 0 THEN core.markers[i].pos ELSE StartOf(core.markers[i].from)

\* In the built tree the node of precede marker i wraps the node it
\* precedes: that node is its first child, its further children hold
\* exactly the tokens bumped between the precede call and the completion
\* of i and are nodes of markers created and consumed in between, and the
\* nodes completed before the preceded node started come before it and
\* outside it.
Wraps(i) ==
    LET m == core.markers[i]
        a == core.markers[m.from]
        ks == NodesOfKind(gb.root, CoreKinds[i])
        k == ks[1]
    IN  /\ Len(ks) = 1
        /\ k.children # <<>>
        /\ k.children[1].kind = CoreKinds[m.from]
        /\ GreenLeaves(k) = GreenLeaves(k.children[1])
                             \o SubSeq(tokens, m.tok_lo + 1, m.tok_hi)
        /\ \A c \in 2..Len(k.children) :
              k.children[c].g = "Branch" =>
                 \E j \in 1..Len(core.markers) :
                    /\ CoreKinds[j] = k.children[c].kind
                    /\ core.markers[j].born > m.born
                    /\ core.markers[j].died < m.died
        /\ \A j \in 1..Len(core.markers) :
              (core.markers[j].state = "completed" /\ core.markers[j].fin < StartOf(m.from)) =>
                 /\ PlaceOf(gb.root, CoreKinds[j]) > 0
                 /\ PlaceOf(gb.root, CoreKinds[j]) < PlaceOf(gb.root, CoreKinds[i])
                 /\ NodesOfKind(k, CoreKinds[j]) = <<>>

CoreBuilt == entry.fn = "core" /\ pc = "built"

Nested(i) ==
    LET m == core.markers[i]
    IN  \A j \in 1..Len(core.markers) :
           LET x == core.markers[j]
           IN  /\ (x.born > m.born /\ x.born < m.died) => (x.died # 0 /\ x.died < m.died)
               /\ (x.born < m.born /\ (x.died = 0 \/ x.died > m.born)) =>
                     (x.died = 0 \/ x.died > m.died)

\* The parser was used as the grammar uses it: every marker consumed in
\* stack order, every precede called with the Finish of the node it
\* precedes as the last event of the buffer, and no precede marker
\* abandoned.
Disciplined ==
    \A j \in 1..Len(core.markers) :
        /\ Nested(j)
        /\ core.markers[j].from # 0 =>
              core.markers[j].adjacent /\ core.markers[j].state # "abandoned"

StepLimit == 10000000

MaxSemis == 12

Slack == 12

LongSizes ==
    (0..(2 * MaxSemis))
    \cup {(StepLimit \div 4) + d : d \in (0 - Slack)..Slack}

\* ParserInput::kind over the tokens of the block with n semicolons.
LongKind(n, i) ==
    IF i = 0 THEN "L_CURLY"
    ELSE IF i <= n THEN "SEMI"
    ELSE IF i = n + 1 THEN "R_CURLY"
    ELSE "EOF"

LongNew(n) == [n |-> n, pos |-> 0, steps |-> 0, nevents |-> 0, panic |-> ""]

\* ParserImpl::nth, the counter: a call that finds more than StepLimit
\* steps panics, any other call counts one step.
nth_steps(l) ==
    IF l.panic # "" THEN l
    ELSE IF l.steps > StepLimit THEN [l EXCEPT !.panic = "the parser seems stuck"]
    ELSE [l EXCEPT !.steps = @ + 1]

\* ParserImpl::nth, the kind it returns.
nth_kind(l, k) == LongKind(l.n, l.pos + k)

long_event(l) == IF l.panic # "" THEN l ELSE [l EXCEPT !.nevents = @ + 1]

\* ParserImpl::bump: one call of nth, and a Token event unless at EOF.
long_bump(l) ==
    LET q == nth_steps(l)
    IN  IF q.panic # "" \/ nth_kind(l, 0) = "EOF" THEN q
        ELSE long_event([q EXCEPT !.pos = @ + 1])

\* Parser::at, the counter.
long_at(l) == nth_steps(l)

\* One turn of the loop of expr_block_contents at a semicolon: at(EOF),
\* at(R_CURLY), current() == SEMI, bump.
long_semi(l) == long_bump(nth_steps(long_at(long_at(l))))

\* The largest number of turns after which no call of nth has yet found
\* more than StepLimit steps: the last of 4 * k calls finds
\* l.steps + 4 * k - 1 steps.
SafeTurns(l) == (StepLimit + 1 - l.steps) \div 4

\* k turns of the loop none of which panics.
long_semis(l, k) ==
    [l EXCEPT !.steps = @ + 4 * k, !.pos = @ + k, !.nevents = @ + k]

InitLong ==
    /\ tokens = <<>>
    /\ pc = "block"
    /\ entry = Entry("block", 0, Restrictions(FALSE, FALSE))
    /\ ps = ParserImplNew(ParserInput(tokens))
    /\ ep = EventProcessorNew(<<>>)
    /\ fb = FileBuilderNew(TextOf(tokens))
    /\ gb = GreenBuilderNew
    /\ \E n \in LongSizes : core = [family |-> "long", l |-> LongNew(n)]

LongGoto(l, next) ==
    /\ core' = [core EXCEPT !.l = l]
    /\ pc' = IF l.panic # "" THEN "aborted" ELSE next
    /\ UNCHANGED <<tokens, entry, ps, ep, fb, gb>>

\* block up to the loop: at(L_CURLY), start, bump, and the one call of
\* nth with which inner_attributes finds no attribute.
LongBlock ==
    /\ pc = "block"
    /\ LongGoto(nth_steps(long_bump(long_event(long_at(core.l)))), "loop")

\* The number of turns taken at once in the middle of a long block: all
\* but the last MaxSemis, and no more than SafeTurns.
FastTurns(l) ==
    LET left == l.n + 1 - l.pos
    IN  IF left - MaxSemis < SafeTurns(l) THEN left - MaxSemis ELSE SafeTurns(l)

LongSemi ==
    /\ pc = "loop"
    /\ nth_kind(core.l, 0) = "SEMI"
    /\ FastTurns(core.l) <= 1
    /\ LongGoto(long_semi(core.l), "loop")

LongSemis ==
    /\ pc = "loop"
    /\ FastTurns(core.l) > 1
    /\ LongGoto(long_semis(core.l, FastTurns(core.l)), "loop")

\* The loop ends at the closing brace: at(EOF), at(R_CURLY); then
\* expect(R_CURLY) and complete.
LongClose ==
    /\ pc = "loop"
    /\ nth_kind(core.l, 0) = "R_CURLY"
    /\ LongGoto(long_event(long_bump(long_at(long_at(long_at(core.l))))), "parsed")

\* into_events: assert_eq!(self.nth(0), EOF).
LongIntoEvents ==
    /\ pc = "parsed"
    /\ LET q == nth_steps(core.l)
       IN  LongGoto(IF q.panic = "" /\ nth_kind(core.l, 0) # "EOF"
                    THEN [q EXCEPT !.panic = "assertion failed: nth(0) == EOF"]
                    ELSE q, "events")

NextLong == LongBlock \/ LongSemi \/ LongSemis \/ LongClose \/ LongIntoEvents

SpecLong == InitLong /\ [][NextLong]_vars

\* The counter in the loop, in closed form: three calls before the loop
\* and four for each semicolon passed.
LongStepsClosedForm ==
    (core.family = "long" /\ pc = "loop") =>
        core.l.steps = 3 + 4 * (core.l.pos - 1)

\* C4: for every token sequence a parse never aborts: no panic and no
\* failed assertion is reached, and the parse hands over its events.
C4_Totality ==
    core.family = "long" => core.l.panic = "" /\ pc # "aborted"

(***************************************************************************)
(* Incremental reparse, as CheckReparse of fuzz.rs drives it.  A text is a *)
(* sequence of characters.                                                 *)
(***************************************************************************)

\* The lexer is outside the repository's sources: maximal runs of
\* whitespace, of identifier characters and of digits with their suffix,
\* and one token for each punctuation character.
CharClass(c) ==
    IF c \in {" ", "\n", "\t"} THEN "ws"
    ELSE IF c \in {"a", "b", "e", "f", "i", "l", "m", "n", "t"} THEN "letter"
    ELSE IF c \in {"1", "2", "3"} THEN "digit"
    ELSE "punct"

RECURSIVE RunEnd(_, _, _)
RunEnd(text, i, classes) ==
    IF i <= Len(text) /\ CharClass(text[i]) \in classes
    THEN RunEnd(text, i + 1, classes) ELSE i

PunctKinds ==
    {"SEMI", "COMMA", "DOT", "L_PAREN", "R_PAREN", "L_CURLY", "R_CURLY", "PLUS", "STAR",
     "EQ", "MINUS", "COLON"}

KeywordKinds == {"FN_KW", "LET_KW", "IF_KW"}

KindOfText(text, kinds, other) ==
    IF \E k \in kinds : static_text(k) = text
    THEN CHOOSE k \in kinds : static_text(k) = text
    ELSE other

RECURSIVE tokenize_from(_, _)
tokenize_from(text, i) ==
    IF i > Len(text) THEN <<>>
    ELSE LET cls == CharClass(text[i])
             j == CASE cls = "ws" -> RunEnd(text, i, {"ws"})
                    [] cls \in {"letter", "digit"} -> RunEnd(text, i, {"letter", "digit"})
                    [] OTHER -> i + 1
             t == SubSeq(text, i, j - 1)
             kind == CASE cls = "ws" -> "WHITESPACE"
                       [] cls = "letter" -> KindOfText(t, KeywordKinds, "IDENT")
                       [] cls = "digit" -> "INT_NUMBER"
                       [] OTHER -> KindOfText(t, PunctKinds, "ERROR")
         IN  <<Tok(kind, t)>> \o tokenize_from(text, j)

tokenize(text) == tokenize_from(text, 1)

\* parse_with over the green builder: the tree of a text under a grammar
\* entry point, or the panic that ended the parse.
built_tree(r) ==
    IF r.ep.panic # "" THEN [panic |-> r.ep.panic, tree |-> NoRoot]
    ELSE [panic |-> gb_finish(r.gb).panic, tree |-> gb_finish(r.gb).root]

build_tree(toks, p) ==
    IF p.panic # "" THEN [panic |-> p.panic, tree |-> NoRoot]
    ELSE built_tree(ProcessAll(EventProcessorNew(p.events), toks, GreenBuilderNew))

parse_with(text, fn) ==
    build_tree(tokenize(text),
               into_events(Run(fn, <<ParserImplNew(ParserInput(tokenize(text)))>>)))

\* SourceFile::parse.
SourceFile_parse(text) == parse_with(text, "root")

\* The offset of child k of a node that starts at off.
ChildOffset(node, off, k) ==
    off + SumSeq([j \in 1..(k - 1) |-> GreenTextLen(node.children[j])])

\* descendants() with kind() and range(): the nodes in pre-order.
RECURSIVE Descendants(_, _)
Descendants(node, off) ==
    <<<<node.kind, off, off + GreenTextLen(node)>>>>
    \o (IF node.g = "Branch"
        THEN Concat([k \in 1..Len(node.children) |->
                        Descendants(node.children[k], ChildOffset(node, off, k))])
        ELSE <<>>)

\* The nodes of the category that is reparsed on its own, each with its
\* path from the root and its range.
RECURSIVE ReparsableNodes(_, _, _)
ReparsableNodes(node, off, route) ==
    (IF node.g = "Branch" /\ node.kind = "BLOCK"
     THEN {[route |-> route, start |-> off, len |-> node.text_len]} ELSE {})
    \cup
    (IF node.g = "Branch"
     THEN UNION {ReparsableNodes(node.children[k], ChildOffset(node, off, k),
                                 Append(route, k)) : k \in 1..Len(node.children)}
     ELSE {})

RECURSIVE NodeAt(_, _)
NodeAt(node, route) ==
    IF route = <<>> THEN node ELSE NodeAt(node.children[Head(route)], Tail(route))

\* The tree with the node at a route replaced; the lengths of its ancestors
\* are computed anew.
RECURSIVE ReplaceAt(_, _, _)
ReplaceAt(node, route, new) ==
    IF route = <<>> THEN new
    ELSE GreenBranchNew(node.kind,
            [node.children EXCEPT ![Head(route)] = ReplaceAt(@, Tail(route), new)])

MaxText == 1

MaxInsert == 1

MaxDelete == 2

MaxEdits == 2

ReparseChars == {"a", " ", ";", "{", "}"}

PREFIX == <<"f", "n", " ", "m", "a", "i", "n", "(", ")", "{", "\n", "\t">>

SUFFIX == <<"\n", "}">>

\* The text with the range deleted and the string inserted in its place.
edited_text(text, delete_start, delete_len, insert) ==
    SubSeq(text, 1, delete_start) \o insert
    \o SubSeq(text, delete_start + delete_len + 1, Len(text))

\* CheckReparse::from_data: the text between PREFIX and SUFFIX, an edit
\* that starts behind PREFIX, and the edited text; nothing when the range
\* is not a range of the text.
from_data(start, delete_len, insert, body) ==
    LET delete_start == start + Len(PREFIX)
        text == PREFIX \o body \o SUFFIX
    IN  IF delete_start + delete_len > Len(text) THEN <<>>
        ELSE <<[text |-> text,
                edit |-> [start |-> delete_start, len |-> delete_len, insert |-> insert],
                edited_text |-> edited_text(text, delete_start, delete_len, insert)]>>

\* The tokens are one block: an opening brace first, its closing brace
\* last, and the braces between them matched.
RECURSIVE balance_of(_, _)
balance_of(toks, depth) ==
    IF toks = <<>> THEN depth
    ELSE IF depth < 0 THEN depth
    ELSE balance_of(Tail(toks),
                    CASE Head(toks).kind = "L_CURLY" -> depth + 1
                      [] Head(toks).kind = "R_CURLY" -> depth - 1
                      [] OTHER -> depth)

is_balanced(toks) ==
    /\ Len(toks) >= 2
    /\ toks[1].kind = "L_CURLY"
    /\ Last(toks).kind = "R_CURLY"
    /\ balance_of(SubSeq(toks, 2, Len(toks) - 1), 0) = 0

\* The smallest nodes of the reparsable category that cover the deleted
\* range.
find_reparsable_node(file, edit) ==
    LET cover == {n \in ReparsableNodes(file, 0, <<>>) :
                     n.start <= edit.start /\ edit.start + edit.len <= n.start + n.len}
    IN  {n \in cover : \A o \in cover : n.len <= o.len}

\* The text of a node after the edit, the edit given by offsets in the
\* file and the node by its start.
get_text_after_edit(node, start, edit) ==
    LET text == GreenText(node)
        from == edit.start - start
    IN  SubSeq(text, 1, from) \o edit.insert \o SubSeq(text, from + edit.len + 1, Len(text))

reparsed_file(r) == [panic |-> r.panic, tree |-> r.tree, how |-> "full", start |-> 0]

full_reparse(file, edit) ==
    reparsed_file(SourceFile_parse(get_text_after_edit(file, 0, edit)))

\* The new text of the node is lexed and parsed on its own and its tree
\* takes the place of the node; a text that is not one block is left to
\* the full reparse.
reparsed_block(file, n, r) ==
    IF r.panic # ""
    THEN [panic |-> r.panic, tree |-> NoRoot, how |-> "block", start |-> n.start]
    ELSE [panic |-> "", tree |-> ReplaceAt(file, n.route, r.tree), how |-> "block",
          start |-> n.start]

reparse_block(file, edit, n) ==
    LET text == get_text_after_edit(NodeAt(file, n.route), n.start, edit)
    IN  IF ~is_balanced(tokenize(text)) THEN full_reparse(file, edit)
        ELSE reparsed_block(file, n, parse_with(text, "block"))

\* SourceFile::reparse: the trees it may return.
reparse(file, edit) ==
    IF find_reparsable_node(file, edit) = {} THEN {full_reparse(file, edit)}
    ELSE {reparse_block(file, edit, n) : n \in find_reparsable_node(file, edit)}

InitReparse ==
    /\ tokens = <<>>
    /\ pc = "data"
    /\ entry = Entry("reparse", 0, Restrictions(FALSE, FALSE))
    /\ ps = ParserImplNew(ParserInput(tokens))
    /\ ep = EventProcessorNew(<<>>)
    /\ fb = FileBuilderNew(TextOf(tokens))
    /\ gb = GreenBuilderNew
    /\ \E body \in SeqsUpTo(ReparseChars, MaxText),
          insert \in SeqsUpTo(ReparseChars, MaxInsert),
          start \in 0..(MaxText + Len(SUFFIX)),
          delete_len \in 0..MaxDelete :
          LET d == from_data(start, delete_len, insert, body)
          IN  /\ d # <<>>
              /\ core = [family |-> "reparse", text |-> d[1].text, edit |-> d[1].edit,
                         edited_text |-> d[1].edited_text, file |-> NoRoot,
                         new_file |-> NoRoot, full_reparse |-> NoRoot, how |-> "",
                         start |-> 0, nedits |-> 1, panic |-> ""]

ReparseGoto(c, next) ==
    /\ core' = c
    /\ pc' = IF c.panic # "" THEN "aborted" ELSE next
    /\ UNCHANGED <<tokens, entry, ps, ep, fb, gb>>

\* CheckReparse::run, line by line.
RunParse ==
    /\ pc = "data"
    /\ \E r \in {SourceFile_parse(core.text)} :
          ReparseGoto([core EXCEPT !.file = r.tree, !.panic = r.panic], "parsed")

RunReparse ==
    /\ pc = "parsed"
    /\ \E r \in reparse(core.file, core.edit) :
          ReparseGoto([core EXCEPT !.new_file = r.tree, !.how = r.how, !.start = r.start,
                                   !.panic = r.panic],
                      "reparsed")

RunFullReparse ==
    /\ pc = "reparsed"
    /\ \E r \in {SourceFile_parse(core.edited_text)} :
          ReparseGoto([core EXCEPT !.full_reparse = r.tree, !.panic = r.panic], "compared")

\* The next edit of a sequence: the reparsed tree is the tree to edit.
NextEdit ==
    /\ pc = "compared"
    /\ core.nedits < MaxEdits
    /\ \E insert \in SeqsUpTo(ReparseChars, MaxInsert),
          start \in Len(PREFIX)..Len(core.edited_text),
          delete_len \in 0..MaxDelete :
          /\ start + delete_len <= Len(core.edited_text)
          /\ ReparseGoto([core EXCEPT
                 !.text = core.edited_text,
                 !.file = core.new_file,
                 !.edit = [start |-> start, len |-> delete_len, insert |-> insert],
                 !.edited_text = edited_text(core.edited_text, start, delete_len, insert),
                 !.new_file = NoRoot, !.full_reparse = NoRoot, !.how = "", !.start = 0,
                 !.nedits = @ + 1], "parsed")

NextReparse == RunParse \/ RunReparse \/ RunFullReparse \/ NextEdit

SpecReparse == InitReparse /\ [][NextReparse]_vars

C22_ForwardParentsResolve ==
    entry.fn = "core" => ForwardParentsInBuffer(ps.events)

\* ---------------------------------------------------------------------
\* The cursor of ParserImpl: any sequence of its operations, with bump
\* and bump_remap also called at the end of the input.  core.log records
\* what the caller consumed: for each consuming call the cursor before
\* the call, the kind and the number of raw tokens; core.last names the
\* operation called last and core.at_eof tells whether the cursor was at
\* the end of the input when it was called.
\* ---------------------------------------------------------------------
MaxCursorOps == 6

CursorTokens ==
    <<Tok("IDENT", <<"a">>), Tok("L_ANGLE", <<"<">>), Tok("L_ANGLE", <<"<">>),
      Tok("WHITESPACE", <<" ">>), Tok("IDENT", <<"b">>)>>

InitCursor ==
    /\ tokens = CursorTokens
    /\ pc = "cursor"
    /\ entry = Entry("cursor", 0, Restrictions(FALSE, FALSE))
    /\ ps = ParserImplNew(ParserInput(tokens))
    /\ ep = EventProcessorNew(<<>>)
    /\ fb = FileBuilderNew(TextOf(tokens))
    /\ gb = GreenBuilderNew
    /\ core = [family |-> "cursor", nops |-> 0, log |-> <<>>, last |-> "new",
               at_eof |-> FALSE]

CursorStep == pc = "cursor" /\ core.nops < MaxCursorOps

\* The record of a call that consumes nothing.
Called(op) ==
    [core EXCEPT !.nops = @ + 1, !.last = op, !.at_eof = Nth(ps, 0) = "EOF"]

\* The record of a call that consumes n raw tokens as one token of the kind,
\* unless it is bump or bump_remap at the end of the input.
Consumed(op, kind, n) ==
    IF op # "bump_compound" /\ Nth(ps, 0) = "EOF" THEN Called(op)
    ELSE [Called(op) EXCEPT !.log = Append(@, [at |-> ps.pos, kind |-> kind, n |-> n])]

CursorStart ==
    /\ CursorStep
    /\ ps' = Start(ps)
    /\ core' = Called("start")
    /\ UNCHANGED <<tokens, pc, entry, ep, fb, gb>>

CursorBump ==
    /\ CursorStep
    /\ ps' = Bump(ps)
    /\ core' = Consumed("bump", Nth(ps, 0), 1)
    /\ UNCHANGED <<tokens, pc, entry, ep, fb, gb>>

CursorBumpRemap ==
    /\ CursorStep
    /\ ps' = bump_remap(ps, "UNDERSCORE")
    /\ core' = Consumed("bump_remap", "UNDERSCORE", 1)
    /\ UNCHANGED <<tokens, pc, entry, ep, fb, gb>>

CursorBumpCompound ==
    /\ CursorStep
    /\ \E n \in 2..3 :
          /\ ps.pos + n <= Len(ps.inp)
          /\ ps' = bump_compound(ps, IF n = 2 THEN "SHL" ELSE "SHLEQ", n)
          /\ core' = Consumed("bump_compound", IF n = 2 THEN "SHL" ELSE "SHLEQ", n)
    /\ UNCHANGED <<tokens, pc, entry, ep, fb, gb>>

CursorError ==
    /\ CursorStep
    /\ ps' = Error(ps, "expected expression")
    /\ core' = Called("error")
    /\ UNCHANGED <<tokens, pc, entry, ep, fb, gb>>

CursorComplete ==
    /\ CursorStep
    /\ \E m \in ps.live :
          /\ ps' = Complete(ps, m, "ERROR")
          /\ core' = Called("complete")
    /\ UNCHANGED <<tokens, pc, entry, ep, fb, gb>>

CursorAbandon ==
    /\ CursorStep
    /\ \E m \in ps.live :
          /\ ps' = Abandon(ps, m)
          /\ core' = Called("abandon")
    /\ UNCHANGED <<tokens, pc, entry, ep, fb, gb>>

\* precede takes a CompletedMarker: the position of a Start whose kind has
\* been set and that has not been preceded yet.
CursorPrecede ==
    /\ CursorStep
    /\ \E k \in 1..Len(ps.events) :
          /\ ps.events[k].type = "Start"
          /\ ps.events[k].kind # "TOMBSTONE"
          /\ ps.events[k].fp = 0
          /\ ps' = Precede(ps, k - 1)
          /\ core' = Called("precede")
    /\ UNCHANGED <<tokens, pc, entry, ep, fb, gb>>

CursorErrAndBump ==
    /\ CursorStep
    /\ ps' = err_and_bump(ps, "expected identifier")
    /\ core' = Consumed("err_and_bump", Nth(ps, 0), 1)
    /\ UNCHANGED <<tokens, pc, entry, ep, fb, gb>>

NextCursor ==
    CursorStart \/ CursorBump \/ CursorBumpRemap \/ CursorBumpCompound \/ CursorError
    \/ CursorComplete \/ CursorAbandon \/ CursorPrecede \/ CursorErrAndBump

SpecCursor == InitCursor /\ [][NextCursor]_vars

\* The Token events of a buffer, in buffer order.
TokenEvents(events) == SelectSeq(events, LAMBDA e : e.type = "Token")

\* The state part of cursor accounting: the cursor is the sum of
\* n_raw_tokens over the Token events, and the Token events are the
\* consuming calls in the order they were made, each starting at the raw
\* token where the one before it ended.
CursorAccounts ==
    LET ts == TokenEvents(ps.events)
    IN  /\ ps.pos = SumSeq([k \in 1..Len(ts) |-> ts[k].n])
        /\ Len(ts) = Len(core.log)
        /\ \A k \in 1..Len(ts) :
              /\ ts[k].kind = core.log[k].kind
              /\ ts[k].n = core.log[k].n
              /\ core.log[k].at = SumSeq([j \in 1..(k - 1) |-> ts[j].n])

\* The step part: the calls that consume nothing leave the cursor alone,
\* and bump and bump_remap at the end of the input leave the parser as it
\* was.
CursorMoves ==
    /\ core'.last \in {"start", "complete", "abandon", "precede", "error"} =>
          ps'.pos = ps.pos
    /\ (core'.last \in {"bump", "bump_remap"} /\ core'.at_eof) =>
          ps'.pos = ps.pos /\ ps'.events = ps.events

\* C26: cursor accounting.  After any sequence of operations the cursor is
\* the sum of n_raw_tokens over the Token events of the buffer and the
\* Token events are in the order of consumption; start, complete, abandon,
\* precede and error never move the cursor, and bump and bump_remap at the
\* end of the input change neither the cursor nor the buffer.
C26_CursorAccounting ==
    /\ [](core.family = "cursor" => CursorAccounts)
    /\ [][core.family = "cursor" => CursorMoves]_vars

\* The cursor is at the end of the input after a fused token, a remapped
\* token and a plain one, and bump was called once more.
C26_Witness ==
    /\ core.family = "cursor"
    /\ core.last = "bump" /\ core.at_eof
    /\ \E k \in 1..Len(ps.events) : ps.events[k].type = "Token" /\ ps.events[k].n = 2
    /\ \E k \in 1..Len(ps.events) :
          ps.events[k].type = "Token" /\ ps.events[k].kind = "UNDERSCORE"
    /\ ps.pos = Len(ps.inp)

\* ---------------------------------------------------------------------
\* Abandoned markers.
\* ---------------------------------------------------------------------

\* The green builder after the replay of an event buffer that may still
\* hold the Starts of live markers: the branches left open and their
\* children so far.
Replayed(events) == ProcessAll(EventProcessorNew(events), tokens, GreenBuilderNew)

ReplayOk(r) == r.ep.panic = "" /\ r.gb.panic = ""

\* The children with every branch of the kind replaced by its own children.
RECURSIVE SpliceSeq(_, _)
SpliceSeq(children, kind) ==
    Concat([k \in 1..Len(children) |->
              IF children[k].g # "Branch" THEN <<children[k]>>
              ELSE IF children[k].kind = kind THEN SpliceSeq(children[k].children, kind)
              ELSE <<GreenBranchNew(children[k].kind,
                                    SpliceSeq(children[k].children, kind))>>])

\* The builder with every branch of the kind spliced into its parent.
SpliceBuilder(g, kind) ==
    [g EXCEPT !.stack = [k \in 1..Len(g.stack) |->
                           [kind |-> g.stack[k].kind,
                            children |-> SpliceSeq(g.stack[k].children, kind)]],
              !.root = IF g.root = NoRoot THEN NoRoot
                       ELSE GreenBranchNew(g.root.kind, SpliceSeq(g.root.children, kind))]

\* The builder holds a branch of the kind below an open branch or a root.
RECURSIVE HasBelow(_, _)
HasBelow(children, kind) ==
    \E k \in 1..Len(children) :
        /\ children[k].g = "Branch"
        /\ children[k].kind = kind \/ HasBelow(children[k].children, kind)

Enclosed(g, kind) ==
    \/ \E k \in 1..Len(g.stack) : HasBelow(g.stack[k].children, kind)
    \/ g.root # NoRoot /\ HasBelow(g.root.children, kind)

\* The markers were used in stack order: each consumed before the markers
\* that were live at its creation, and each precede called with the Finish
\* of the node it precedes as the last event of the buffer.
StackOrder ==
    \A j \in 1..Len(core.markers) :
        Nested(j) /\ (core.markers[j].from # 0 => core.markers[j].adjacent)

\* What abandon does to marker i at this step.  The Start is popped when
\* it is the last event; otherwise the buffer is left alone, the Start
\* stays without a kind and without a Finish, and the replay of the buffer
\* gives what the replay would give had the marker been completed with
\* the kind SPLICED instead, with the SPLICED node replaced by its
\* children.
AbandonSplices(i) ==
    LET m == core.markers[i]
        a == Replayed(ps'.events)
        b == Replayed(Complete(ps, m.pos, "SPLICED").events)
    IN  /\ ps'.pos = ps.pos
        /\ IF m.pos = Len(ps.events) - 1
           THEN ps'.events = Front(ps.events)
           ELSE /\ ps'.events = ps.events
                /\ ps'.events[m.pos + 1] = EvStart("TOMBSTONE", 0)
                /\ NOpenStarts(ps'.events) = NFinishes(ps'.events)
                /\ (ReplayOk(b) /\ Enclosed(b.gb, "SPLICED")) =>
                      /\ ReplayOk(a)
                      /\ a.gb = SpliceBuilder(b.gb, "SPLICED")

AbandonStep(i) ==
    /\ core.family = "core" /\ pc = "core" /\ pc' = "core"
    /\ i <= Len(core.markers)
    /\ core.markers[i].state = "live"
    /\ core'.markers[i].state = "abandoned"

MaxGreenNodes == 3

MaxReaders == 2

GreenLeafInputs == {<<"IDENT", <<"a">>>>, <<"WHITESPACE", <<"\n", " ">>>>}

\* GreenNode::text_len of the node at a position of the heap.
heap_text_len(heap, id) ==
    IF heap[id].g = "Branch" THEN heap[id].text_len ELSE Len(GreenLeafText(heap[id]))

\* GreenNode::kind.
heap_kind(heap, id) == heap[id].kind

\* GreenNode::children.
heap_children(heap, id) == IF heap[id].g = "Branch" THEN heap[id].children ELSE <<>>

\* GreenNode::text: the texts of the leaves below the node, in order.
RECURSIVE heap_text(_, _)
heap_text(heap, id) ==
    IF heap[id].g = "Branch"
    THEN Concat([k \in 1..Len(heap[id].children) |-> heap_text(heap, heap[id].children[k])])
    ELSE GreenLeafText(heap[id])

\* GreenNode::new_leaf: a new node; the nodes there are stay as they are.
new_leaf(heap, kind, text) == Append(heap, GreenLeafNew(kind, text))

\* A new_branch that takes the number of its children for its length.
new_branch_counts_children(heap, kind, kids) ==
    Append(heap, [g |-> "Branch", kind |-> kind, newlines |-> 0, spaces |-> 0,
                  has_text |-> FALSE, text |-> <<>>,
                  text_len |-> Len(kids),
                  children |-> kids])

\* A new_branch that writes its kind into its first child as well.
new_branch_retags_child(heap, kind, kids) ==
    LET node == [g |-> "Branch", kind |-> kind, newlines |-> 0, spaces |-> 0,
                 has_text |-> FALSE, text |-> <<>>,
                 text_len |-> SumSeq([k \in 1..Len(kids) |-> heap_text_len(heap, kids[k])]),
                 children |-> kids]
    IN  IF kids # <<>> THEN Append([heap EXCEPT ![kids[1]].kind = kind], node)
        ELSE Append(heap, node)

\* GreenNode::new_branch: a new node that holds the children it is given
\* and the sum of their lengths.
new_branch(heap, kind, kids) ==
    Append(heap, [g |-> "Branch", kind |-> kind, newlines |-> 0, spaces |-> 0,
                  has_text |-> FALSE, text |-> <<>>,
                  text_len |-> SumSeq([k \in 1..Len(kids) |-> heap_text_len(heap, kids[k])]),
                  children |-> kids])

\* What the accessors of the node at a position return.
Observed(heap, id) ==
    [kind |-> heap_kind(heap, id), text_len |-> heap_text_len(heap, id),
     children |-> heap_children(heap, id), text |-> heap_text(heap, id)]

IdleReader == [at |-> 0, call |-> "", stack |-> <<>>, buff |-> <<>>, done |-> FALSE]

InitGreen ==
    /\ tokens = <<>>
    /\ pc = "green"
    /\ entry = Entry("green", 0, Restrictions(FALSE, FALSE))
    /\ ps = ParserImplNew(<<>>)
    /\ ep = EventProcessorNew(<<>>)
    /\ fb = FileBuilderNew(<<>>)
    /\ gb = GreenBuilderNew
    /\ core = [family |-> "green", heap |-> <<>>, born |-> <<>>,
               readers |-> [r \in 1..MaxReaders |-> IdleReader]]

\* The record of the node constructed last.
Constructed(heap) ==
    [core EXCEPT !.heap = heap, !.born = Append(@, Observed(heap, Len(heap)))]

GreenNewLeaf ==
    /\ pc = "green"
    /\ Len(core.heap) < MaxGreenNodes
    /\ \E in \in GreenLeafInputs : core' = Constructed(new_leaf(core.heap, in[1], in[2]))
    /\ UNCHANGED <<tokens, pc, entry, ps, ep, fb, gb>>

GreenNewBranch ==
    /\ pc = "green"
    /\ Len(core.heap) < MaxGreenNodes
    /\ \E kids \in SeqsUpTo(1..Len(core.heap), 2) :
          core' = Constructed(new_branch(core.heap, "BIN_EXPR", kids))
    /\ UNCHANGED <<tokens, pc, entry, ps, ep, fb, gb>>

\* A reader calls kind, text_len or children of a node: the call returns
\* what the node holds.
GreenRead ==
    /\ pc = "green"
    /\ \E r \in 1..MaxReaders, id \in 1..Len(core.heap), call \in {"kind", "text_len", "children"} :
          /\ core.readers[r].stack = <<>>
          /\ core' = [core EXCEPT !.readers[r] =
                         [at |-> id, call |-> call, stack |-> <<>>, done |-> TRUE,
                          buff |-> CASE call = "kind" -> <<heap_kind(core.heap, id)>>
                                     [] call = "text_len" -> <<heap_text_len(core.heap, id)>>
                                     [] call = "children" -> heap_children(core.heap, id)]]
    /\ UNCHANGED <<tokens, pc, entry, ps, ep, fb, gb>>

\* A reader calls text of a node: an empty buffer, and the node to visit.
GreenTextStart ==
    /\ pc = "green"
    /\ \E r \in 1..MaxReaders, id \in 1..Len(core.heap) :
          /\ core.readers[r].stack = <<>>
          /\ core' = [core EXCEPT !.readers[r] =
                         [at |-> id, call |-> "text", stack |-> <<id>>, buff |-> <<>>,
                          done |-> FALSE]]
    /\ UNCHANGED <<tokens, pc, entry, ps, ep, fb, gb>>

\* One step of go: the text of a leaf is pushed to the buffer, the children
\* of a branch are visited next, in order.
GreenTextStep ==
    /\ pc = "green"
    /\ \E r \in 1..MaxReaders :
          /\ core.readers[r].stack # <<>>
          /\ LET id == Head(core.readers[r].stack)
                 rest == Tail(core.readers[r].stack)
             IN  core' = [core EXCEPT
                            !.readers[r].stack =
                               IF core.heap[id].g = "Branch"
                               THEN core.heap[id].children \o rest ELSE rest,
                            !.readers[r].buff =
                               IF core.heap[id].g = "Branch" THEN @
                               ELSE @ \o GreenLeafText(core.heap[id]),
                            !.readers[r].done =
                               IF core.heap[id].g = "Branch"
                               THEN core.heap[id].children \o rest = <<>> ELSE rest = <<>>]
    /\ UNCHANGED <<tokens, pc, entry, ps, ep, fb, gb>>

NextGreen ==
    GreenNewLeaf \/ GreenNewBranch \/ GreenRead \/ GreenTextStart \/ GreenTextStep

SpecGreen == InitGreen /\ [][NextGreen]_vars

\* What a reader that has returned from its call holds is what the node
\* returned for that call when it was constructed.
ReadsAsBorn(r) ==
    LET q == core.readers[r]
        b == core.born[q.at]
    IN  q.done =>
           q.buff = CASE q.call = "kind" -> <<b.kind>>
                      [] q.call = "text_len" -> <<b.text_len>>
                      [] q.call = "children" -> b.children
                      [] q.call = "text" -> b.text

\* C21: green immutability.  No step changes a node that has been
\* constructed, the accessors of every node return at any time what they
\* returned at its construction, for nodes shared by several branches as
\* well, and every reader, whatever the other readers and constructions do
\* meanwhile, observes those values.
C21_GreenImmutable ==
    /\ [](core.family = "green" =>
             /\ \A id \in 1..Len(core.heap) : Observed(core.heap, id) = core.born[id]
             /\ \A r \in 1..MaxReaders : ReadsAsBorn(r))
    /\ [][core.family = "green" =>
             \A id \in 1..Len(core.heap) : core'.heap[id] = core.heap[id]]_vars

\* Two branches share a child, and each of the two readers has returned
\* from text on one of them.
C21_Witness ==
    /\ core.family = "green"
    /\ \E a, b \in 1..Len(core.heap) :
          /\ a < b
          /\ core.heap[a].g = "Branch" /\ core.heap[b].g = "Branch"
          /\ \E k \in 1..Len(core.heap[a].children) :
                \E l \in 1..Len(core.heap[b].children) :
                   core.heap[a].children[k] = core.heap[b].children[l]
          /\ core.readers[1].done /\ core.readers[1].call = "text" /\ core.readers[1].at = a
          /\ core.readers[1].buff # <<>>
          /\ core.readers[2].done /\ core.readers[2].call = "text" /\ core.readers[2].at = b

\* ---------------------------------------------------------------------
\* Green leaves.  A leaf is made from a kind and a text and then read
\* back.  The texts run over the blank texts around the limits of the
\* interned form (up to MaxNewlines newlines, then up to MaxSpaces spaces,
\* then one more character or none); the kinds with a fixed text come with
\* that text.
\* ---------------------------------------------------------------------
MaxNewlines == 17

MaxSpaces == 65

\* n newlines followed by s spaces.
Blanks(n, s) == [k \in 1..(n + s) |-> IF k <= n THEN "\n" ELSE " "]

LeafTails == {<<>>, <<"\n">>, <<"\t">>, <<"a">>, <<" ", "\n">>}

LeafTexts == {Blanks(n, s) \o t : n \in 0..MaxNewlines, s \in 0..MaxSpaces, t \in LeafTails}

FixedKinds == {"PLUS", "SHL", "SHLEQ", "FN_KW", "L_CURLY", "DOTDOT"}

LeafInputs ==
    {<<"WHITESPACE", t>> : t \in LeafTexts}
      \cup {<<k, Blanks(n, s) \o t>> : k \in {"IDENT", "COMMENT"}, n \in 0..1, s \in 0..1,
                                      t \in LeafTails}
      \cup {<<k, static_text(k)>> : k \in FixedKinds}

InitLeaf ==
    /\ tokens = <<>>
    /\ pc = "leaf_input"
    /\ entry = Entry("leaf", 0, Restrictions(FALSE, FALSE))
    /\ ps = ParserImplNew(<<>>)
    /\ ep = EventProcessorNew(<<>>)
    /\ fb = FileBuilderNew(<<>>)
    /\ gb = GreenBuilderNew
    /\ \E in \in LeafInputs :
          core = [family |-> "leaf", kind |-> in[1], text |-> in[2], leaf |-> NoRoot,
                  got_kind |-> "", got_text |-> <<>>]

\* GreenLeaf::new.
LeafNew ==
    /\ pc = "leaf_input"
    /\ core' = [core EXCEPT !.leaf = GreenLeafNew(core.kind, core.text)]
    /\ pc' = "leaf_made"
    /\ UNCHANGED <<tokens, entry, ps, ep, fb, gb>>

\* GreenLeaf::kind and GreenLeaf::text.
LeafRead ==
    /\ pc = "leaf_made"
    /\ core' = [core EXCEPT !.got_kind = core.leaf.kind, !.got_text = GreenLeafText(core.leaf)]
    /\ pc' = "leaf_read"
    /\ UNCHANGED <<tokens, entry, ps, ep, fb, gb>>

NextLeaf == LeafNew \/ LeafRead

SpecLeaf == InitLeaf /\ [][NextLeaf]_vars

\* The text is at most N_NEWLINES newlines followed by at most N_SPACES
\* spaces and nothing else.
Internable(text) == \E n \in 0..N_NEWLINES, s \in 0..N_SPACES : text = Blanks(n, s)

\* C25: leaf text round trip.  The text and the kind read back from a leaf
\* are the text and the kind it was made from, and a WHITESPACE text is
\* stored in the interned form exactly when it is at most 16 newlines
\* followed by at most 64 spaces and nothing else, the empty text included.
C25_LeafRoundTrip ==
    core.family = "leaf" =>
        /\ pc = "leaf_read" => core.got_text = core.text /\ core.got_kind = core.kind
        /\ pc # "leaf_input" =>
              (core.leaf.g = "Whitespace" <=>
                  (core.kind = "WHITESPACE" /\ Internable(core.text)))

\* The longest interned text has been read back.
C25_Witness ==
    /\ core.family = "leaf" /\ pc = "leaf_read"
    /\ core.leaf.g = "Whitespace"
    /\ core.text = Blanks(N_NEWLINES, N_SPACES)
    /\ core.got_text = core.text

\* ---------------------------------------------------------------------
\* FileBuilder as a sink: any sequence of calls of leaf, start_internal,
\* finish_internal and error, and then finish.  A failed assertion or
\* unwrap ends the run.
\* ---------------------------------------------------------------------
MaxSinkCalls == 6

SinkText == <<"a", "b">>

InitSink ==
    /\ tokens = <<Tok("IDENT", <<"a">>), Tok("IDENT", <<"b">>)>>
    /\ pc = "sink"
    /\ entry = Entry("sink", 0, Restrictions(FALSE, FALSE))
    /\ ps = ParserImplNew(<<>>)
    /\ ep = EventProcessorNew(<<>>)
    /\ fb = FileBuilderNew(SinkText)
    /\ gb = GreenBuilderNew
    /\ core = [family |-> "sink", ncalls |-> 0]

\* The builder after a call: the run goes on unless the call panicked.
SinkCalled(b) ==
    /\ fb' = b
    /\ pc' = IF b.panic = "" THEN "sink" ELSE "aborted"
    /\ core' = [core EXCEPT !.ncalls = @ + 1]
    /\ UNCHANGED <<tokens, entry, ps, ep, gb>>

SinkLeaf ==
    /\ pc = "sink" /\ core.ncalls < MaxSinkCalls
    /\ \E len \in 0..1 : SinkCalled(fb_leaf(fb, "IDENT", len))

SinkStartInternal ==
    /\ pc = "sink" /\ core.ncalls < MaxSinkCalls
    /\ \E kind \in {"SOURCE_FILE", "ERROR"} : SinkCalled(start_internal(fb, kind))

SinkFinishInternal ==
    /\ pc = "sink" /\ core.ncalls < MaxSinkCalls
    /\ SinkCalled(finish_internal(fb))

SinkError ==
    /\ pc = "sink" /\ core.ncalls < MaxSinkCalls
    /\ SinkCalled(fb_error(fb, "expected an item"))

\* FileBuilder::finish: the file is handed over unless an assertion fails.
SinkFinish ==
    /\ pc = "sink"
    /\ fb' = fb_finish(fb)
    /\ pc' = IF fb'.panic = "" THEN "finished" ELSE "aborted"
    /\ UNCHANGED <<tokens, entry, ps, ep, gb, core>>

NextSink == SinkLeaf \/ SinkStartInternal \/ SinkFinishInternal \/ SinkError \/ SinkFinish

SpecSink == InitSink /\ [][NextSink]_vars

\* The nodes reached from the nodes of the set through first_child and
\* next_sibling links, the set included.
RECURSIVE Linked(_, _)
Linked(nodes, set) ==
    LET more == set \cup {nodes[n + 1].first_child : n \in set}
                    \cup {nodes[n + 1].next_sibling : n \in set}
        next == more \ {None}
    IN  IF next = set THEN set ELSE Linked(nodes, next)

\* C30: single root.  In the file that finish returns exactly one node
\* has no parent, it is node 0, and every other node is reached from it
\* through first_child and next_sibling links.
C30_SingleRoot ==
    (core.family = "sink" /\ pc = "finished") =>
        /\ {n \in 0..(Len(fb.nodes) - 1) : fb.nodes[n + 1].parent = None} = {0}
        /\ Linked(fb.nodes, {0}) = 0..(Len(fb.nodes) - 1)

\* The children of a node in order: the first_child link and then the
\* next_sibling links.
RECURSIVE SiblingsFrom(_, _)
SiblingsFrom(nodes, n) ==
    IF n = None THEN <<>> ELSE <<n>> \o SiblingsFrom(nodes, nodes[n + 1].next_sibling)

ChildrenOf(nodes, n) == SiblingsFrom(nodes, nodes[n + 1].first_child)

InProgressIds(b) == {b.in_progress[i][1] : i \in 1..Len(b.in_progress)}

\* C18: contiguous offsets.  After every sequence of sink calls the first
\* child of each node starts at the start of the node and each next sibling
\* starts where the previous one ends; the range of a branch that has been
\* finished ends where its last child ends and is empty without children;
\* the assertions of grow and of fill never fail.
C18_ContiguousOffsets ==
    (core.family = "sink") =>
        /\ fb.panic \notin {"assertion failed: left.end() == right.start()",
                            "assertion failed: slot.is_none()"}
        /\ \A n \in 0..(Len(fb.nodes) - 1) :
              LET node == fb.nodes[n + 1]
                  kids == ChildrenOf(fb.nodes, n)
              IN  /\ kids # <<>> => fb.nodes[kids[1] + 1].start = node.start
                  /\ \A i \in 1..(Len(kids) - 1) :
                        fb.nodes[kids[i + 1] + 1].start = fb.nodes[kids[i] + 1].end
                  /\ (n \notin InProgressIds(fb) /\ node.kind # "IDENT") =>
                        node.end = IF kids = <<>> THEN node.start
                                   ELSE fb.nodes[Last(kids) + 1].end

\* A finished file whose root has a branch with a leaf and then a leaf.
C18_Witness ==
    /\ core.family = "sink" /\ pc = "finished"
    /\ Len(fb.nodes) = 4
    /\ ChildrenOf(fb.nodes, 0) = <<1, 3>>
    /\ ChildrenOf(fb.nodes, 1) = <<2>>
    /\ fb.nodes[3].end = 1 /\ fb.nodes[4].end = 2

(***************************************************************************)
(* The fragment specification: one grammar function on the tokens of a     *)
(* statement or of an expression, followed by tokens the function leaves   *)
(* to its caller.  The events are replayed into the green builder.         *)
(***************************************************************************)
Id(s) == Tok("IDENT", <<s>>)

Num(s) == Tok("INT_NUMBER", <<s>>)

\* Expressions whose first atom is a block or an if expression, with the
\* number of expression statements written inside them.
BlockHeads ==
    {[toks |-> <<T("L_CURLY"), T("R_CURLY")>>, blk |-> TRUE, inner |-> 0],
     [toks |-> <<T("L_CURLY"), Num("1"), T("R_CURLY")>>, blk |-> TRUE, inner |-> 0],
     [toks |-> <<T("L_CURLY"), Id("a"), T("SEMI"), T("R_CURLY")>>, blk |-> TRUE, inner |-> 1],
     [toks |-> <<T("IF_KW"), Blank, Id("a"), T("L_CURLY"), T("R_CURLY")>>,
      blk |-> TRUE, inner |-> 0],
     [toks |-> <<T("L_CURLY"), Num("1"), T("R_CURLY"), T("DOT"), Id("f"),
                 T("L_PAREN"), T("R_PAREN")>>, blk |-> TRUE, inner |-> 0],
     [toks |-> <<T("L_CURLY"), T("R_CURLY"), T("QUESTION")>>, blk |-> TRUE, inner |-> 0]}

\* Expressions whose first atom is a path, a literal or a parenthesis.
PlainHeads ==
    {[toks |-> <<Id("a")>>, blk |-> FALSE, inner |-> 0],
     [toks |-> <<Num("1")>>, blk |-> FALSE, inner |-> 0],
     [toks |-> <<Id("a"), T("PLUS"), Num("1")>>, blk |-> FALSE, inner |-> 0],
     [toks |-> <<Id("a"), T("DOT"), Id("b")>>, blk |-> FALSE, inner |-> 0],
     [toks |-> <<Id("a"), T("L_PAREN"), Num("1"), T("R_PAREN")>>, blk |-> FALSE, inner |-> 0],
     [toks |-> <<T("L_PAREN"), Id("a"), T("R_PAREN")>>, blk |-> FALSE, inner |-> 0],
     [toks |-> <<Id("a"), Blank, T("EQ"), Blank, T("L_CURLY"), T("R_CURLY")>>,
      blk |-> FALSE, inner |-> 0],
     [toks |-> <<T("MINUS"), T("L_CURLY"), T("R_CURLY")>>, blk |-> FALSE, inner |-> 0]}

\* What may stand after an expression statement without being part of it.
StmtFollows ==
    {<<>>, <<T("SEMI")>>, <<T("SEMI"), Id("b")>>, <<T("SEMI"), T("SEMI")>>,
     <<Id("b")>>, <<Num("2")>>, <<T("LET_KW")>>, <<T("R_PAREN")>>, <<T("COMMA")>>,
     <<T("R_CURLY")>>}

\* The raw tokens of an operator with a blank after its k-th token where
\* gaps[k] holds.
Gapped(op, gaps) ==
    Concat([k \in 1..Len(op) |->
               IF k < Len(op) /\ gaps[k] THEN <<op[k], Blank>> ELSE <<op[k]>>])

RangeOps == {<<T("DOTDOT")>>, <<T("DOTDOTEQ")>>}

\* What follows an open-ended range: nothing, or a token that starts no
\* expression.
RangeTails ==
    {<<>>, <<T("SEMI")>>, <<T("R_PAREN")>>, <<T("COMMA")>>, <<T("R_BRACK")>>,
     <<T("R_CURLY")>>}

\* Block-like atoms, with the kind of their node.
BlockAtoms ==
    {[toks |-> <<T("L_CURLY"), T("R_CURLY")>>, kind |-> "BLOCK_EXPR"],
     [toks |-> <<T("L_CURLY"), Num("1"), T("R_CURLY")>>, kind |-> "BLOCK_EXPR"],
     [toks |-> <<T("IF_KW"), Blank, Id("a"), Blank, T("L_CURLY"), T("R_CURLY")>>,
      kind |-> "IF_EXPR"]}

\* Postfix operators written after the atom: none, a field access, a
\* method call, a question mark, a cast; two in a row.
Postfixes ==
    {[toks |-> <<>>, kind |-> ""],
     [toks |-> <<T("DOT"), Id("b")>>, kind |-> "FIELD_EXPR"],
     [toks |-> <<T("DOT"), Id("f"), T("L_PAREN"), T("R_PAREN")>>,
      kind |-> "METHOD_CALL_EXPR"],
     [toks |-> <<T("QUESTION")>>, kind |-> "TRY_EXPR"],
     [toks |-> <<Blank, T("AS_KW"), Blank, Id("a")>>, kind |-> "CAST_EXPR"],
     [toks |-> <<T("QUESTION"), T("DOT"), Id("b")>>, kind |-> "FIELD_EXPR"]}

\* What follows: nothing, the parentheses of a call, the brackets of an
\* index, or an operator of the table with a right operand.
AtomTrailers ==
    {[toks |-> <<>>, kind |-> ""],
     [toks |-> <<T("L_PAREN"), Num("2"), T("R_PAREN")>>, kind |-> "CALL_EXPR"],
     [toks |-> <<T("L_BRACK"), Num("2"), T("R_BRACK")>>, kind |-> "INDEX_EXPR"]}
    \cup {[toks |-> Spaced(op, blanks) \o <<Num("2")>>, kind |-> "BIN_EXPR"] :
            op \in TableOps, blanks \in BOOLEAN}

\* Tokens that a type written after as goes on with.
TypeContinues == {"L_ANGLE", "L_PAREN"}

\* What stands before the path: nothing, an operand with a binary
\* operator, or a prefix operator.
StructPrefixes ==
    {<<>>, <<Id("b"), T("PLUS")>>, <<Id("b"), Blank, T("EQEQ"), Blank>>,
     <<Num("1"), T("L_ANGLE")>>, <<T("MINUS")>>, <<T("EXCL")>>, <<T("AMP")>>, <<T("STAR")>>}

\* What stands after the path: a brace pair with no field, with a field
\* and its value, or with a field alone.
StructBodies ==
    {<<T("L_CURLY"), T("R_CURLY")>>,
     <<T("L_CURLY"), Id("b"), T("COLON"), Blank, Num("1"), T("R_CURLY")>>,
     <<T("L_CURLY"), Id("b"), T("COMMA"), T("R_CURLY")>>}

\* The tokens that are both a binary and a prefix operator.
SplitOps == {"MINUS", "AMP", "STAR"}

LetHead == <<T("LET_KW"), Blank, Id("a"), Blank, T("EQ"), Blank>>

\* What stands after the dot of a field expression: a name, an integer, a
\* token that lexes as a float, or none of them.
FieldNames ==
    {<<Id("b")>>, <<Num("0")>>, <<Tok("FLOAT_NUMBER", <<"0", ".">>)>>,
     <<Tok("FLOAT_NUMBER", <<"0", ".", "1">>)>>, <<>>, <<T("PLUS")>>, <<T("DOT")>>,
     <<T("LET_KW")>>}

\* The parameter `a: a`.
Param(s) == <<Id(s), T("COLON"), Blank, Id(s)>>

\* What stands between the parentheses of a function, and whether a comma
\* stands where a parameter is expected.
ParamLists ==
    {[toks |-> <<>>, stray |-> FALSE],
     [toks |-> Param("a"), stray |-> FALSE],
     [toks |-> Param("a") \o <<T("COMMA")>>, stray |-> FALSE],
     [toks |-> Param("a") \o <<T("COMMA"), Blank>> \o Param("b"), stray |-> FALSE],
     [toks |-> <<T("COMMA")>>, stray |-> TRUE],
     [toks |-> <<T("COMMA"), Blank>> \o Param("a"), stray |-> TRUE],
     [toks |-> Param("a") \o <<T("COMMA"), T("COMMA")>>, stray |-> TRUE],
     [toks |-> Param("a") \o <<T("COMMA"), T("COMMA"), Blank>> \o Param("b"),
      stray |-> TRUE]}

NSignificant(toks) == Len(SelectSeq(toks, LAMBDA t : ~is_insignificant(t.kind)))

InitFrag ==
    /\ pc = "input"
    /\ gb = GreenBuilderNew
    /\ ep = EventProcessorNew(<<>>)
    /\ \/ \E head \in BlockHeads \cup PlainHeads, follow \in StmtFollows, blank \in BOOLEAN :
            /\ tokens = head.toks \o (IF blank THEN <<Blank>> ELSE <<>>) \o follow
            /\ entry = Entry("stmt", 0, Restrictions(FALSE, FALSE))
            /\ core = [family |-> "stmt", head |-> head, follow |-> follow]
       \/ \E op \in CompositeOps, gaps \in [1..2 -> BOOLEAN], blanks \in BOOLEAN :
            /\ Len(op) = 2 => ~gaps[2]
            /\ tokens = <<Id("a")>> \o Spaced(Gapped(op, gaps), blanks) \o <<Id("b")>>
            /\ entry = Entry("expr", 1, Restrictions(FALSE, FALSE))
            /\ core = [family |-> "fuse", op |-> op, gaps |-> gaps]
       \/ \E op \in TableOps \ RangeOps, rng \in RangeOps, xs \in Operands,
             blanks \in BOOLEAN :
         \E tail \in RangeTails \cup {<<xs[3]>>} :
            /\ tokens = <<xs[1]>> \o Spaced(op, blanks) \o <<xs[2]>> \o rng
                                  \o (IF blanks THEN <<Blank>> ELSE <<>>) \o tail
            /\ entry = Entry("expr", 1, Restrictions(FALSE, FALSE))
            /\ core = [family |-> "range", op |-> op, rng |-> rng, xs |-> xs, tail |-> tail]
       \/ \E pre \in StructPrefixes, body \in StructBodies, blank \in BOOLEAN,
             fn \in {"expr", "expr_no_struct"} :
            /\ tokens = pre \o <<Id("a")>> \o (IF blank THEN <<Blank>> ELSE <<>>) \o body
            /\ entry = Entry(fn, 1, Restrictions(fn = "expr_no_struct", FALSE))
            /\ core = [family |-> "struct", pre |-> pre, body |-> body]
       \/ \E atom \in BlockAtoms, op \in SplitOps, blanks \in BOOLEAN,
             semi \in BOOLEAN, ctx \in {"stmt", "let"} :
            /\ tokens = <<T("L_CURLY")>>
                        \o (IF ctx = "let" THEN LetHead ELSE <<>>)
                        \o atom.toks \o Spaced(<<T(op)>>, blanks) \o <<Num("1")>>
                        \o (IF semi THEN <<T("SEMI")>> ELSE <<>>) \o <<T("R_CURLY")>>
            /\ entry = Entry("block", 0, Restrictions(FALSE, FALSE))
            /\ core = [family |-> "split", atom |-> atom, op |-> op, ctx |-> ctx,
                       semi |-> semi]
       \/ \E fld \in FieldNames, tail \in RangeTails :
            /\ tokens = <<Id("a"), T("DOT")>> \o fld \o tail
            /\ entry = Entry("expr", 1, Restrictions(FALSE, FALSE))
            /\ core = [family |-> "field", fld |-> fld, tail |-> tail]
       \/ \E tail \in RangeTails \cup {<<Num("1")>>, <<T("PLUS"), Id("b")>>} :
            /\ tokens = <<Id("a"), T("COLONCOLON")>> \o tail
            /\ entry = Entry("expr", 1, Restrictions(FALSE, FALSE))
            /\ core = [family |-> "segment", tail |-> tail]
       \/ \E atom \in BlockAtoms, post \in Postfixes, trailer \in AtomTrailers :
            /\ post.kind = "FIELD_EXPR" => trailer.kind # "CALL_EXPR"
            /\ post.kind = "CAST_EXPR" =>
                  InpKind(ParserInput(trailer.toks), 0) \notin TypeContinues
            /\ tokens = atom.toks \o post.toks \o trailer.toks
            /\ entry = Entry("expr_stmt", 1, Restrictions(FALSE, TRUE))
            /\ core = [family |-> "atom", atom |-> atom, post |-> post, trailer |-> trailer]
       \/ \E params \in ParamLists, fn \in {"root", "list_"} :
            /\ tokens = (IF fn = "root" THEN <<T("FN_KW"), Blank, Id("f")>> ELSE <<>>)
                        \o <<T("L_PAREN")>> \o params.toks
                        \o <<T("R_PAREN"), Blank, T("L_CURLY"), T("R_CURLY")>>
            /\ entry = Entry(fn, 0, Restrictions(FALSE, FALSE))
            /\ core = [family |-> "params", params |-> params]
    /\ fb = FileBuilderNew(TextOf(tokens))
    /\ ps = ParserImplNew(ParserInput(tokens))

FragEntries == {"stmt", "expr", "expr_stmt", "expr_no_struct", "block", "root", "list_"}

\* The grammar function runs to completion; the tokens it leaves are not
\* consumed.
FragParse ==
    /\ pc = "input"
    /\ entry.fn \in FragEntries
    /\ ps' = CASE entry.fn = "stmt" -> Run("stmt", <<ps, "Yes">>)
               [] entry.fn = "expr" -> expr(ps)
               [] entry.fn = "expr_stmt" -> expr_stmt(ps)
               [] entry.fn = "expr_no_struct" -> expr_no_struct(ps)
               [] entry.fn = "block" -> Run("block", <<ps>>)
               [] entry.fn = "root" -> Run("root", <<ps>>)
               [] entry.fn = "list_" -> Run("list_", <<ps, "FnDef">>)
    /\ ep' = EventProcessorNew(ps'.events)
    /\ pc' = IF Ok(ps') THEN "parsed" ELSE "aborted"
    /\ UNCHANGED <<tokens, entry, fb, gb, core>>

\* The green builder hands over the tree of the fragment.
FragFinish ==
    /\ pc = "parsed"
    /\ entry.fn \in FragEntries
    /\ ep.i > Len(ep.events)
    /\ gb' = gb_finish(gb)
    /\ pc' = IF gb'.panic = "" THEN "built" ELSE "aborted"
    /\ UNCHANGED <<tokens, entry, ps, ep, fb, core>>

NextFrag == FragParse \/ Process \/ FragFinish

SpecFrag == InitFrag /\ [][NextFrag]_vars

\* The Error events of a buffer with a given message, and all of them.
ErrorsWith(events, msg) == SelectSeq(events, LAMBDA e : e.type = "Error" /\ e.msg = msg)

ErrorEvents(events) == SelectSeq(events, LAMBDA e : e.type = "Error")

StartsOfKind(events, kind) ==
    SelectSeq(events, LAMBDA e : e.type = "Start" /\ e.kind = kind)

SemiFollows == core.follow # <<>> /\ core.follow[1].kind = "SEMI"

StmtParsed == core.family = "stmt" /\ pc \in {"parsed", "built"}

\* C24: in stmt with StmtWithSemi::Yes, when the expression statement is
\* not directly followed by a closing brace, a block-like expression
\* completes as EXPR_STMT with no error whether or not a semicolon follows,
\* and a following semicolon is consumed; a non-block-like expression
\* consumes a following semicolon or else records exactly one
\* 'expected SEMI' error; in every case exactly one EXPR_STMT node is
\* completed, the one that spans the whole buffer.
C24_StatementTerminator ==
    (core.family = "stmt" /\ pc # "input"
        /\ ~(core.follow # <<>> /\ core.follow[1].kind = "R_CURLY")) =>
        /\ pc # "aborted"
        /\ ps.events[1] = EvStart("EXPR_STMT", 0)
        /\ Last(ps.events) = EvFinish
        /\ Len(StartsOfKind(ps.events, "EXPR_STMT")) = core.head.inner + 1
        /\ NOpenStarts(ps.events) = NFinishes(ps.events)
        /\ ps.pos = NSignificant(core.head.toks) + (IF SemiFollows THEN 1 ELSE 0)
        /\ Len(ErrorEvents(ps.events)) =
              IF core.head.blk \/ SemiFollows THEN 0 ELSE 1
        /\ ErrorEvents(ps.events) = ErrorsWith(ps.events, "expected SEMI")

\* A plain statement followed by an identifier, built into a tree: its
\* missing semicolon was reported once.
C24_Witness ==
    /\ core.family = "stmt" /\ pc = "built"
    /\ core.follow # <<>> /\ core.follow[1].kind = "IDENT"
    /\ gb.root.kind = "EXPR_STMT"
    /\ ~core.head.blk
    /\ Len(ErrorsWith(ps.events, "expected SEMI")) = 1

\* The parser at the operator of a fragment of the family "fuse": the
\* operator follows the one token of the left operand.
AtOperator == [ParserImplNew(ParserInput(tokens)) EXCEPT !.pos = 1]

\* The Token event of the operator: the second token consumed.
OperatorToken == TokenEvents(ps.events)[2]

FuseParsed == core.family = "fuse" /\ pc # "input"

\* C27 as stated: when trivia separates raw tokens of a composite operator,
\* next2 and next3 return None, no composite is formed and the operator
\* consumed is the single first token.
C27_AnyGapNoComposite ==
    (FuseParsed /\ (core.gaps[1] \/ core.gaps[2])) =>
        /\ next2(AtOperator) = <<>> /\ next3(AtOperator) = <<>>
        /\ OperatorToken = EvToken(core.op[1].kind, 1)

\* C27: a composite operator is recognised only when its raw tokens are
\* contiguous in the text.  Contiguous tokens are fused into one Token
\* event of the composite kind; when trivia separates the first two raw
\* tokens, next2 and next3 return None and the single first token is the
\* operator; when trivia separates only the third token of a three-token
\* composite, next3 returns None and the first two tokens are fused into
\* their two-token composite.
C27_FusionNeedsAdjacency ==
    FuseParsed =>
        /\ pc # "aborted"
        /\ (next2(AtOperator) = <<>>) = core.gaps[1]
        /\ core.gaps[1] => next3(AtOperator) = <<>>
        /\ Len(core.op) = 3 => (next3(AtOperator) = <<>>) = (core.gaps[1] \/ core.gaps[2])
        /\ OperatorToken.n > 1 =>
              /\ OperatorToken.n <= Len(core.op)
              /\ \A k \in 1..(OperatorToken.n - 1) : ~core.gaps[k]
        /\ IF core.gaps[1] THEN OperatorToken = EvToken(core.op[1].kind, 1)
           ELSE IF core.gaps[2]
           THEN OperatorToken = EvToken(OpKind(SubSeq(core.op, 1, 2)), 2)
           ELSE OperatorToken = EvToken(OpKind(core.op), Len(core.op))

\* A parsed fragment whose operator was written with a blank between its
\* first two tokens, and one whose three tokens were all apart.
C27_Witness ==
    /\ core.family = "fuse" /\ pc = "built"
    /\ core.gaps[1] /\ core.gaps[2]
    /\ OperatorToken = EvToken("L_ANGLE", 1)

\* A fragment whose shift-assign operator was written with a blank before
\* its last token only: the shift is fused.
C27_PartialWitness ==
    /\ core.family = "fuse" /\ pc = "built"
    /\ ~core.gaps[1] /\ core.gaps[2]
    /\ OperatorToken = EvToken("SHL", 2)

\* The tree of an operand with an open-ended range operator after it.
OpenRangeShape(x, rng) ==
    <<"(", "RANGE_EXPR">> \o OperandShape(x)
        \o <<"[", OpKind(rng)>> \o TextOf(rng) \o <<"]", ")">>

RangeBuilt == core.family = "range" /\ pc = "built"

RightOperand == core.tail # <<>> /\ core.tail[1].kind \in EXPR_FIRST

\* C28: a range operator that is not followed by an expression start is
\* attached by the postfix loop to the nearest atom, whatever the binding
\* power of the operator before it: a op b.. parses as
\* BIN(a, op, RANGE_EXPR(b ..)), and what follows is not consumed.  With a
\* right operand the power 2 of the table applies: a op b..c parses as
\* RANGE_EXPR(BIN(a, op, b), .., c) when op binds tighter than 2, and as
\* BIN(a, op, RANGE_EXPR(b, .., c)) for the assignment operators.
C28_OpenRangePlacement ==
    /\ (core.family = "range" /\ pc # "input") => pc # "aborted"
    /\ RangeBuilt =>
          /\ gb.errors = <<>>
          /\ IF ~RightOperand
             THEN /\ Shape(gb.root) =
                        BinShape(OperandShape(core.xs[1]), core.op,
                                 OpenRangeShape(core.xs[2], core.rng))
                  /\ ps.pos = Len(ps.inp) - Len(core.tail)
             ELSE /\ BpOf(core.op) > 2 =>
                        Shape(gb.root) = LeftShape(core.op, core.rng, core.xs)
                  /\ BpOf(core.op) < 2 =>
                        Shape(gb.root) = RightShape(core.op, core.rng, core.xs)
                  /\ BpOf(core.op) # 2
                  /\ Current(ps) = "EOF"

\* a + b.. has been parsed and built: the range holds b alone.
C28_Witness ==
    /\ RangeBuilt
    /\ core.op = <<T("PLUS")>> /\ core.rng = <<T("DOTDOT")>> /\ core.tail = <<>>
    /\ TextOf(tokens) = <<"a", "+", "b", ".", ".">>
    /\ Shape(gb.root) = BinShape(OperandShape(core.xs[1]), core.op,
                                 OpenRangeShape(core.xs[2], core.rng))

AtomParsed == core.family = "atom" /\ pc # "input"

\* The kind of the node that expr_stmt returned.
ReturnedKind == ps.events[ps.cm + 1].kind

\* C29: with prefer_stmt set and a block-like first atom, a directly
\* following parenthesis or bracket is not parsed as a call or an index,
\* and expr_bp returns BlockLike::Block without consuming any binary
\* operator, also when postfix operators were applied to the atom; after a
\* first postfix operator calls and indexing are allowed again.
C29_BlockLikeAtStatement ==
    AtomParsed =>
        /\ pc # "aborted"
        /\ ps.blk
        /\ ps.cm # NoMarker
        /\ ErrorEvents(ps.events) = <<>>
        /\ StartsOfKind(ps.events, "BIN_EXPR") = <<>>
        /\ StartsOfKind(ps.events, "RANGE_EXPR") = <<>>
        /\ IF core.trailer.kind \in {"CALL_EXPR", "INDEX_EXPR"} /\ core.post.toks # <<>>
           THEN /\ ReturnedKind = core.trailer.kind
                /\ Current(ps) = "EOF"
           ELSE /\ ReturnedKind =
                      IF core.post.toks = <<>> THEN core.atom.kind ELSE core.post.kind
                /\ ps.pos = NSignificant(core.atom.toks \o core.post.toks)
                /\ StartsOfKind(ps.events, "CALL_EXPR") = <<>>
                /\ StartsOfKind(ps.events, "INDEX_EXPR") = <<>>

\* {1}.f() + 2 at statement position: the method call has been built and
\* the cursor is on the operator.
C29_Witness ==
    /\ core.family = "atom" /\ pc = "built"
    /\ TextOf(tokens) = <<"{", "1", "}", ".", "f", "(", ")", " ", "+", " ", "2">>
    /\ gb.root.kind = "METHOD_CALL_EXPR"
    /\ Current(ps) = "PLUS"
    /\ ps.blk

(***************************************************************************)
(* Compound tokens.                                                        *)
(***************************************************************************)
CompositeKinds ==
    {"SHLEQ", "SHREQ", "PLUSEQ", "MINUSEQ", "STAREQ", "PERCENTEQ", "SLASHEQ", "PIPEEQ",
     "AMPEQ", "CARETEQ", "PIPEPIPE", "AMPAMP", "LTEQ", "GTEQ", "SHL", "SHR"}

\* The kind whose text is the text of the raw tokens of an operator.
FusedKind(op) == CHOOSE k \in CompositeKinds : static_text(k) = TextOf(op)

\* C11: in operator position the directly adjacent raw tokens of a
\* composite operator of the table are consumed as one Token event of the
\* composite kind whose n_raw_tokens is the number of its parts, inside a
\* single BIN_EXPR, and the cursor advances by that number of raw tokens;
\* no part is consumed as an operator of its own, so two adjacent angle
\* brackets are one SHL or SHR and never two comparisons.
C11_CompoundFusion ==
    (entry.fn = "expr_bp" /\ pc \in {"parsed", "built"} /\ core.family = "floor"
        /\ core.op1 \in CompositeOps /\ BpOf(core.op1) >= entry.bp) =>
        /\ TokenEvents(ps.events) =
              <<EvToken(core.xs[1].kind, 1),
                EvToken(FusedKind(core.op1), Len(core.op1)),
                EvToken(core.xs[2].kind, 1)>>
        /\ ps.pos = Len(core.op1) + 2
        /\ Len(StartsOfKind(ps.events, "BIN_EXPR")) = 1
        /\ ErrorEvents(ps.events) = <<>>

\* a<<b has been parsed and built: one SHL token of two raw tokens.
C11_Witness ==
    /\ Built /\ core.family = "floor"
    /\ TextOf(tokens) = <<"a", "<", "<", "b">>
    /\ EvToken("SHL", 2) \in {ps.events[k] : k \in 1..Len(ps.events)}
    /\ gb.root.kind = "BIN_EXPR"

StructParsed == core.family = "struct" /\ pc \in {"parsed", "built"}

\* C12: when an expression is parsed with forbid_structs set, a path
\* directly followed by an opening brace is completed as PATH_EXPR and the
\* brace is left unconsumed, also when the path is the right operand of a
\* binary operator or the operand of a prefix operator; parsed without the
\* restriction the same tokens yield a STRUCT_LIT that holds a
\* NAMED_FIELD_LIST.
C12_LiteralBlockAmbiguity ==
    /\ (core.family = "struct" /\ pc # "input") => pc # "aborted"
    /\ StructParsed =>
          /\ ErrorEvents(ps.events) = <<>>
          /\ IF entry.r.forbid_structs
             THEN /\ Current(ps) = "L_CURLY"
                  /\ ps.pos = NSignificant(core.pre) + 1
                  /\ StartsOfKind(ps.events, "STRUCT_LIT") = <<>>
                  /\ StartsOfKind(ps.events, "NAMED_FIELD_LIST") = <<>>
                  /\ \E k \in 1..(Len(ps.events) - 5) :
                        /\ ps.events[k].type = "Start" /\ ps.events[k].kind = "PATH_EXPR"
                        /\ ps.events[k + 4] = EvToken("IDENT", 1)
                        /\ ps.inp[ps.pos].idx = Len(core.pre) + 1
             ELSE /\ Current(ps) = "EOF"
                  /\ Len(StartsOfKind(ps.events, "STRUCT_LIT")) = 1
                  /\ Len(StartsOfKind(ps.events, "NAMED_FIELD_LIST")) = 1
                  /\ \E k \in 1..(Len(ps.events) - 1) :
                        /\ ps.events[k + 1] = EvToken("L_CURLY", 1)
                        /\ ps.events[k].type = "Start"
                        /\ ps.events[k].kind = "NAMED_FIELD_LIST"

\* b + a {} parsed with forbid_structs: the tree is the BIN_EXPR and the
\* cursor is on the brace.
C12_Witness ==
    /\ core.family = "struct" /\ pc = "built"
    /\ entry.r.forbid_structs
    /\ TextOf(tokens) = <<"b", "+", "a", " ", "{", "}">>
    /\ gb.root.kind = "BIN_EXPR"
    /\ Current(ps) = "L_CURLY"

SplitParsed == core.family = "split" /\ pc \in {"parsed", "built"}

\* The node a prefix operator makes.
PrefixKind(op) == IF op = "AMP" THEN "REF_EXPR" ELSE "PREFIX_EXPR"

\* The kinds of the children of a branch, trivia left out.
ChildKinds(node) ==
    LET ks == [k \in 1..Len(node.children) |-> node.children[k].kind]
    IN  SelectSeq(ks, LAMBDA k : ~is_insignificant(k))

\* C13: at statement position a block-like expression directly followed
\* by a token that is both a binary and a prefix operator ends the
\* statement before that token: the block holds two statements, the
\* block-like expression and then the prefix expression, and no BIN_EXPR;
\* the same tokens after let a = are one BIN_EXPR inside the LET_STMT.
C13_StatementSplitting ==
    /\ (core.family = "split" /\ pc # "input") => pc # "aborted"
    /\ SplitParsed =>
          /\ Current(ps) = "EOF"
          /\ IF core.ctx = "stmt"
             THEN /\ StartsOfKind(ps.events, "BIN_EXPR") = <<>>
                  /\ Len(StartsOfKind(ps.events, PrefixKind(core.op))) = 1
                  /\ ps.events[3] = EvStart("EXPR_STMT", 0)
                  /\ ps.events[4].kind = core.atom.kind
                  /\ ErrorEvents(ps.events) = <<>>
             ELSE /\ Len(StartsOfKind(ps.events, "BIN_EXPR")) = 1
                  /\ StartsOfKind(ps.events, PrefixKind(core.op)) = <<>>
                  /\ StartsOfKind(ps.events, "EXPR_STMT") = <<>>
                  /\ ps.events[3] = EvStart("LET_STMT", 0)
                  /\ Len(ErrorEvents(ps.events)) = IF core.semi THEN 0 ELSE 1
    /\ (core.family = "split" /\ pc = "built") =>
          /\ gb.root.kind = "BLOCK"
          /\ ChildKinds(gb.root) =
                IF core.ctx = "let" THEN <<"L_CURLY", "LET_STMT", "R_CURLY">>
                ELSE <<"L_CURLY", "EXPR_STMT",
                       IF core.semi THEN "EXPR_STMT" ELSE PrefixKind(core.op), "R_CURLY">>

\* The block of {1} - 1; has been built: two expression statements, the
\* first one the inner block alone.
C13_Witness ==
    /\ core.family = "split" /\ pc = "built" /\ core.ctx = "stmt"
    /\ TextOf(tokens) = <<"{", "{", "1", "}", " ", "-", " ", "1", ";", "}">>
    /\ ChildKinds(gb.root) = <<"L_CURLY", "EXPR_STMT", "EXPR_STMT", "R_CURLY">>
    /\ ChildKinds(gb.root.children[2]) = <<"BLOCK_EXPR">>
    /\ ChildKinds(gb.root.children[4]) = <<"PREFIX_EXPR", "SEMI">>

FieldParsed == core.family = "field" /\ pc \in {"parsed", "built"}

\* The kind of the token written after the dot.
FieldNameKind ==
    IF core.fld # <<>> THEN core.fld[1].kind
    ELSE IF core.tail # <<>> THEN core.tail[1].kind
    ELSE "EOF"

\* What field_expr leaves in the buffer, given whether a FLOAT_NUMBER
\* after the dot is to have recorded an error.
FieldPolicy(float_is_error) ==
    /\ (core.family = "field" /\ pc # "input") => pc # "aborted"
    /\ FieldParsed =>
          /\ ps.events[1] = EvStart("PATH_EXPR", 9)
          /\ ps.events[10].type = "Start" /\ ps.events[10].kind = "FIELD_EXPR"
          /\ ps.events[11] = EvToken("DOT", 1)
          /\ NOpenStarts(ps.events) = NFinishes(ps.events)
          /\ CASE FieldNameKind \in {"IDENT", "INT_NUMBER"} ->
                    ErrorEvents(ps.events) = <<>>
               [] FieldNameKind = "FLOAT_NUMBER" ->
                    IF float_is_error THEN ErrorEvents(ps.events) # <<>>
                    ELSE /\ ErrorEvents(ps.events) = <<>>
                         /\ ps.events[12] = EvToken("FLOAT_NUMBER", 1)
                         /\ ps.events[13] = EvFinish
               [] OTHER ->
                    /\ ps.events[12] = EvError("expected field name or number")
                    /\ ps.events[13] = EvFinish

\* C16: in a field expression, after the dot, only an IDENT or an
\* INT_NUMBER token is accepted without error; a FLOAT_NUMBER token at that
\* position records a parse error, and any other token records
\* 'expected field name or number'; in all cases a FIELD_EXPR node is
\* completed.
C16_TupleIndexPolicy == FieldPolicy(TRUE)

\* What the code does: the FLOAT_NUMBER is consumed as the field, without
\* an error.
C16_FloatAccepted == FieldPolicy(FALSE)

\* The four events of an ERROR node that wraps one token.
ErrorNodeOf(msg, kind) == <<EvStart("ERROR", 0), EvError(msg), EvToken(kind, 1), EvFinish>>

ErrAndBumpCalled ==
    /\ core.family = "cursor" /\ core'.nops = core.nops + 1
    /\ core'.last = "err_and_bump"

\* C14: every call of err_and_bump advances the cursor by exactly one
\* token and appends, in this order, Start(ERROR), Error(message), Token,
\* Finish: an ERROR node that wraps exactly that one token.
C14_ErrAndBumpProgress ==
    [][ErrAndBumpCalled =>
          /\ ps'.pos = ps.pos + 1
          /\ ps'.events = ps.events \o ErrorNodeOf("expected identifier", Nth(ps, 0))]_vars

\* What holds of every call: away from the end of the input the claim; at
\* the end of the input the cursor stays and the ERROR node is empty.
C14_ErrAndBumpSteps ==
    [][ErrAndBumpCalled =>
          IF Nth(ps, 0) # "EOF"
          THEN /\ ps'.pos = ps.pos + 1
               /\ ps'.events =
                     ps.events \o ErrorNodeOf("expected identifier", Nth(ps, 0))
          ELSE /\ ps'.pos = ps.pos
               /\ ps'.events = ps.events
                     \o <<EvStart("ERROR", 0), EvError("expected identifier"), EvFinish>>]_vars

\* The grammar calls err_and_bump at the end of the input: the path a::
\* has been parsed, its last segment holds an ERROR node without a token.
C14_EmptyErrorNode ==
    /\ core.family = "segment" /\ pc = "built" /\ core.tail = <<>>
    /\ \E k \in 1..(Len(ps.events) - 2) :
          SubSeq(ps.events, k, k + 2) =
             <<EvStart("ERROR", 0), EvError("expected identifier"), EvFinish>>

\* C17: for every green node built by any sequence of new_leaf and
\* new_branch calls, text_len of a branch is the sum of text_len of its
\* children, and text_len of every node is the length of its text.
C17_GreenLength ==
    core.family = "green" =>
        \A id \in 1..Len(core.heap) :
            /\ core.heap[id].g = "Branch" =>
                  heap_text_len(core.heap, id) =
                     SumSeq([k \in 1..Len(core.heap[id].children) |->
                                heap_text_len(core.heap, core.heap[id].children[k])])
            /\ heap_text_len(core.heap, id) = Len(heap_text(core.heap, id))

\* A branch over a branch and a whitespace leaf: six characters, four of
\* them below the inner branch.
C17_Witness ==
    /\ core.family = "green" /\ Len(core.heap) = 3
    /\ core.heap[1].g = "Whitespace"
    /\ core.heap[2].g = "Branch" /\ core.heap[2].children = <<1, 1>>
    /\ core.heap[3].g = "Branch" /\ core.heap[3].children = <<2, 1>>
    /\ heap_text_len(core.heap, 3) = 6
    /\ heap_text(core.heap, 3) = <<"\n", " ", "\n", " ", "\n", " ">>

\* The positions of the events that start a node of the kind.
StartPositions(events, kind) ==
    {i \in 1..Len(events) : events[i].type = "Start" /\ events[i].kind = kind}

ParamsParsed == core.family = "params" /\ pc \in {"parsed", "built"}

\* C15: parameter-list recovery.  A file with one function whose parameter
\* list has a comma where a parameter is expected is parsed with exactly
\* one ERROR node, which wraps exactly one token, and with at least one
\* error; the FN_DEF node is produced and a PARAM_LIST node is inside it.
C15_ParamListRecovery ==
    (ParamsParsed /\ entry.fn = "root" /\ core.params.stray) =>
        /\ Cardinality(StartPositions(ps.events, "ERROR")) = 1
        /\ \A i \in StartPositions(ps.events, "ERROR") :
              /\ i + 3 <= Len(ps.events)
              /\ [k \in 1..3 |-> ps.events[i + k].type] = <<"Error", "Token", "Finish">>
        /\ ErrorEvents(ps.events) # <<>>
        /\ \E f \in StartPositions(ps.events, "FN_DEF") :
             \E l \in StartPositions(ps.events, "PARAM_LIST") : f < l

\* What list_ does at the comma: it reports the missing parameter and the
\* missing parenthesis, makes no ERROR node and leaves the comma and what
\* follows it to its caller.
C15_ListLeavesSeparator ==
    (ParamsParsed /\ core.params.stray) =>
        /\ ErrorsWith(ps.events, "expected value parameter") # <<>>
        /\ ErrorsWith(ps.events, "expected R_PAREN") # <<>>
        /\ entry.fn = "list_" =>
              /\ StartPositions(ps.events, "ERROR") = {}
              /\ Current(ps) = "COMMA"
        /\ entry.fn = "root" =>
              /\ Cardinality(StartPositions(ps.events, "ERROR")) >= 3
              /\ Cardinality(StartPositions(ps.events, "FN_DEF")) = 1
              /\ Cardinality(StartPositions(ps.events, "PARAM_LIST")) = 1

(***************************************************************************)
(* The list specification: the loops of arg_list, named_field_list,        *)
(* type_param_list and list_, one pass through the body at a time.         *)
(***************************************************************************)
MaxListBody == 3

ListAlphabet ==
    {Id("a"), Num("1"), Tok("LIFETIME", <<"'", "a">>), T("COMMA"), T("COLON"), T("PLUS"),
     T("DOTDOT"), T("L_CURLY"), T("R_CURLY"), T("R_PAREN"), T("R_ANGLE")}

\* The brackets of a list and the kind of its node.
ListShape(list) ==
    CASE list = "arg_list" -> [bra |-> "L_PAREN", ket |-> "R_PAREN", kind |-> "ARG_LIST"]
      [] list = "named_field_list" ->
            [bra |-> "L_CURLY", ket |-> "R_CURLY", kind |-> "NAMED_FIELD_LIST"]
      [] list = "type_param_list" ->
            [bra |-> "L_ANGLE", ket |-> "R_ANGLE", kind |-> "TYPE_PARAM_LIST"]
      [] list = "list_" -> [bra |-> "L_PAREN", ket |-> "R_PAREN", kind |-> "PARAM_LIST"]

Lists == {"arg_list", "named_field_list", "type_param_list", "list_"}

InitList ==
    /\ pc = "input"
    /\ gb = GreenBuilderNew
    /\ ep = EventProcessorNew(<<>>)
    /\ \E list \in Lists, body \in SeqsUpTo(ListAlphabet, MaxListBody) :
            /\ tokens = <<T(ListShape(list).bra)>> \o body
            /\ entry = Entry(list, 0, Restrictions(FALSE, FALSE))
            /\ core = [family |-> "list", turns |-> 0, left |-> FALSE]
    /\ fb = FileBuilderNew(TextOf(tokens))
    /\ ps = ParserImplNew(ParserInput(tokens))

\* The whole list function on a parser.
ListWhole(list, p) ==
    CASE list = "arg_list" -> Run("arg_list", <<p>>)
      [] list = "named_field_list" -> Run("named_field_list", <<p>>)
      [] list = "type_param_list" -> Run("type_param_list", <<p>>)
      [] list = "list_" -> Run("list_", <<p, "FnDef">>)

\* One pass through the body of the loop of a list.
ListBody(list, p) ==
    CASE list = "arg_list" -> Run("arg_list_turn", <<p>>)
      [] list = "named_field_list" -> Run("named_field_list_turn", <<p>>)
      [] list = "type_param_list" -> Run("type_param_list_turn", <<p>>)
      [] list = "list_" -> Run("list_turn", <<p, "FnDef">>)

\* The condition of the while loop.
ListGoesOn(list, p) == Ok(p) /\ ~At(p, "EOF") /\ ~At(p, ListShape(list).ket)

\* The function up to its loop: the marker, the opening bracket and, in a
\* parameter list, the self parameter.
ListOpen ==
    /\ pc = "input" /\ core.family = "list"
    /\ ps' = IF entry.fn = "list_" THEN Run("opt_self_param", <<Bump(Start(ps))>>)
             ELSE Bump(Start(ps))
    /\ pc' = "loop"
    /\ UNCHANGED <<tokens, entry, ep, fb, gb, core>>

ListTurn ==
    /\ pc = "loop" /\ ~core.left /\ ListGoesOn(entry.fn, ps)
    /\ \E t \in {ListBody(entry.fn, ps)} :
          /\ ps' = t.p
          /\ core' = [core EXCEPT !.turns = @ + 1, !.left = t.left]
    /\ UNCHANGED <<tokens, pc, entry, ep, fb, gb>>

\* The function after its loop: the closing bracket and the node.
ListClose ==
    /\ pc = "loop" /\ (core.left \/ ~ListGoesOn(entry.fn, ps))
    /\ ps' = IF ~Ok(ps) THEN ps
             ELSE Complete(IF entry.fn = "arg_list" THEN Eat(ps, "R_PAREN")
                           ELSE Expect(ps, ListShape(entry.fn).ket),
                           0, ListShape(entry.fn).kind)
    /\ pc' = IF Ok(ps') THEN "parsed" ELSE "aborted"
    /\ UNCHANGED <<tokens, entry, ep, fb, gb, core>>

NextList == ListOpen \/ ListTurn \/ ListClose

SpecList == InitList /\ [][NextList]_vars

\* C20: termination of list parsing.  Every pass through the body of the
\* loop of arg_list, named_field_list, type_param_list and list_ consumes at
\* least one token or leaves the loop, so the passes are no more than the
\* tokens and the function returns; the token that type_param_list rejects
\* is consumed by err_and_bump, in an ERROR node of its own.
C20_ListLoopsTerminate ==
    /\ [](core.family = "list" =>
            /\ core.turns <= NSignificant(tokens)
            /\ pc # "aborted"
            /\ pc = "parsed" =>
                  ps = ListWhole(entry.fn, ParserImplNew(ParserInput(tokens))))
    /\ [][(core.family = "list" /\ core'.turns > core.turns) =>
            /\ ps'.pos > ps.pos \/ core'.left
            /\ (entry.fn = "type_param_list" /\ Current(ps) \notin {"LIFETIME", "IDENT"}) =>
                  /\ Len(ps'.events) >= Len(ps.events) + 4
                  /\ SubSeq(ps'.events, Len(ps.events) + 1, Len(ps.events) + 4)
                       = ErrorNodeOf("expected type parameter", Current(ps))
                  /\ ps'.pos >= ps.pos + 1]_vars

\* A type parameter list that rejected a token and went on to a second
\* pass through the loop.
C20_Witness ==
    /\ core.family = "list" /\ pc = "parsed"
    /\ entry.fn = "type_param_list"
    /\ ErrorsWith(ps.events, "expected type parameter") # <<>>
    /\ core.turns >= 2

(***************************************************************************)
(* The comparison of CheckReparse::run on its own: the tree of the         *)
(* reparse, the edited text and the tree of the edited text parsed from    *)
(* scratch are given, so that the comparison also meets trees a faulty     *)
(* reparse would hand it.                                                  *)
(***************************************************************************)
MaxChildren == 2

\* What stands below the root of a small file.
ValidateItems ==
    {GreenLeafNew("IDENT", <<"a">>), GreenLeafNew("WHITESPACE", <<" ">>),
     GreenBranchNew("ERROR", <<>>),
     GreenBranchNew("ERROR", <<GreenLeafNew("IDENT", <<"a">>)>>),
     GreenBranchNew("NAME", <<GreenLeafNew("IDENT", <<"a">>)>>)}

ValidateTrees ==
    {GreenBranchNew("SOURCE_FILE", items) : items \in SeqsUpTo(ValidateItems, MaxChildren)}

\* The pairs that the iterator of zip yields: as many as the shorter of
\* the two sequences has.
zip(a, b) ==
    [k \in 1..(IF Len(a) <= Len(b) THEN Len(a) ELSE Len(b)) |-> <<a[k], b[k]>>]

InitValidate ==
    /\ tokens = <<>>
    /\ pc = "reparsed"
    /\ entry = Entry("validate", 0, Restrictions(FALSE, FALSE))
    /\ ps = ParserImplNew(ParserInput(tokens))
    /\ ep = EventProcessorNew(<<>>)
    /\ fb = FileBuilderNew(TextOf(tokens))
    /\ gb = GreenBuilderNew
    /\ \E new_file \in ValidateTrees, full \in ValidateTrees, expected \in ValidateTrees :
          /\ GreenText(full) = GreenText(expected)
          /\ core = [family |-> "validate", new_file |-> new_file,
                     edited_text |-> GreenText(expected), full_reparse |-> full,
                     i |-> 0, panic |-> ""]

ValidateGoto(c, next) ==
    /\ core' = c
    /\ pc' = IF c.panic # "" THEN "aborted" ELSE next
    /\ UNCHANGED <<tokens, entry, ps, ep, fb, gb>>

\* The assertion that the text of the reparsed tree is the edited text.
ValidateText ==
    /\ pc = "reparsed" /\ core.family = "validate"
    /\ ValidateGoto([core EXCEPT !.panic =
                        IF GreenText(core.new_file) = core.edited_text THEN ""
                        ELSE "assertion failed: left == right"], "zip")

\* One pass through the loop over the zipped descendants.
ValidateZip ==
    /\ pc = "zip"
    /\ LET pairs == zip(Descendants(core.new_file, 0), Descendants(core.full_reparse, 0))
       IN  /\ core.i < Len(pairs)
           /\ ValidateGoto([core EXCEPT !.i = @ + 1, !.panic =
                               IF pairs[core.i + 1][1] # pairs[core.i + 1][2]
                               THEN "different syntax tree produced by the full reparse"
                               ELSE ""], "zip")

\* The iterator is exhausted and run returns.
ValidateReturn ==
    /\ pc = "zip"
    /\ core.i = Len(zip(Descendants(core.new_file, 0), Descendants(core.full_reparse, 0)))
    /\ ValidateGoto(core, "passed")

NextValidate == ValidateText \/ ValidateZip \/ ValidateReturn

SpecValidate == InitValidate /\ [][NextValidate]_vars

IsPrefix(a, b) == Len(a) <= Len(b) /\ SubSeq(b, 1, Len(a)) = a

\* C19: validator strength.  run returns without a panic only when the
\* tree of the reparse and the tree parsed from scratch have the same nodes
\* in pre-order by kind and range, the same number of nodes included, and
\* the text of the reparsed tree is the expected edited text.
C19_ValidatorStrength ==
    (core.family = "validate" /\ pc = "passed") =>
        /\ Descendants(core.new_file, 0) = Descendants(core.full_reparse, 0)
        /\ GreenText(core.new_file) = core.edited_text

\* What run does establish: the text is the expected one and the nodes of
\* the shorter pre-order are the first nodes of the longer one.
C19_CommonPrefix ==
    (core.family = "validate" /\ pc = "passed") =>
        /\ GreenText(core.new_file) = core.edited_text
        /\ \/ IsPrefix(Descendants(core.new_file, 0), Descendants(core.full_reparse, 0))
           \/ IsPrefix(Descendants(core.full_reparse, 0), Descendants(core.new_file, 0))

\* run has accepted a reparsed tree that lacks the last node of the tree
\* parsed from scratch.
C19_ShorterTreeAccepted ==
    /\ core.family = "validate" /\ pc = "passed"
    /\ Len(Descendants(core.new_file, 0)) < Len(Descendants(core.full_reparse, 0))

====
